---- MODULE Spec2Model ----
(***************************************************************************)
(* ATS compatibility scoring of rezoom.gpt (backend/utils/ats_matcher.py). *)
(*                                                                         *)
(* Texts are TLA+ strings handled character by character: substring tests, *)
(* lower-casing and the two regular expressions of the matcher are         *)
(* computed on the characters, the way Python computes them.               *)
(*                                                                         *)
(* Numbers: a 'percentage' is kept in hundredths of a percent (Python      *)
(* rounds it to two decimals), so 3333 stands for 33.33.                   *)
(***************************************************************************)
EXTENDS Integers, Sequences, FiniteSets, TLC

VARIABLES resume_text, job_description, hashseed, fp_tie, pc, result, earlier,
          request, ollama, ai_pc, response,
          running, cleanup_thread, threads, jobs, cron_log,
          tmp_files, services, outbox

\* the state of a scoring call
ats_vars == <<resume_text, job_description, hashseed, fp_tie, pc, result, earlier>>

\* the state of an optimization request
ai_vars == <<request, ollama, ai_pc, response>>

\* the CronCleaner object, the threads it has started, the jobs of the
\* schedule module and the last line of the log
cron_vars == <<running, cleanup_thread, threads, jobs, cron_log>>

\* the tmp directory, the services an email request depends on and the
\* messages the SMTP server has accepted
mail_vars == <<tmp_files, services, outbox>>

vars == <<ats_vars, ai_vars, cron_vars, mail_vars>>

(***************************************************************************)
(* Python values.  A text argument is either a str or None.                *)
(***************************************************************************)
PyNone == [type |-> "NoneType"]

Str(s) == [type |-> "str", value |-> s]

(***************************************************************************)
(* Characters.                                                             *)
(***************************************************************************)
UpperAlpha == "ABCDEFGHIJKLMNOPQRSTUVWXYZ"

LowerAlpha == "abcdefghijklmnopqrstuvwxyz"

DigitAlpha == "0123456789"

Char(t, i) == SubSeq(t, i, i)

CharsOf(alpha) == {Char(alpha, k) : k \in 1..Len(alpha)}

UpperSet == CharsOf(UpperAlpha)

LowerSet == CharsOf(LowerAlpha)

DigitSet == CharsOf(DigitAlpha)

\* \s of the re module (the ASCII part)
SpaceSet == {" ", "\t", "\n", "\r"}

\* \w of the re module (the ASCII part)
WordSet == UpperSet \cup LowerSet \cup DigitSet \cup {"_"}

\* str.lower() on one character
LowerChar(c) ==
    IF c \in UpperSet
    THEN Char(LowerAlpha, CHOOSE k \in 1..26 : Char(UpperAlpha, k) = c)
    ELSE c

\* str.lower()
RECURSIVE Lower(_)
Lower(t) ==
    IF Len(t) = 0 THEN t
    ELSE IF Len(t) = 1 THEN LowerChar(t)
    ELSE LET h == Len(t) \div 2
         IN  Lower(SubSeq(t, 1, h)) \o Lower(SubSeq(t, h + 1, Len(t)))

\* the literal lit occurs in t at position i
LitAt(t, i, lit) ==
    /\ i >= 1
    /\ i + Len(lit) - 1 <= Len(t)
    /\ SubSeq(t, i, i + Len(lit) - 1) = lit

\* Python's  p in t  on two str
IsIn(p, t) == \E i \in 1..(Len(t) - Len(p) + 1) : LitAt(t, i, p)

\* first position at or after i whose character is not in the class cls
\* (Len(t) + 1 when there is none)
SkipClass(t, i, cls) ==
    CHOOSE k \in i..(Len(t) + 1) :
        /\ k = Len(t) + 1 \/ Char(t, k) \notin cls
        /\ \A m \in i..(k - 1) : Char(t, m) \in cls

\* int() on a string of decimal digits
RECURSIVE ParseInt(_)
ParseInt(d) ==
    IF Len(d) = 0 THEN 0
    ELSE 10 * ParseInt(SubSeq(d, 1, Len(d) - 1))
         + ((CHOOSE k \in 1..10 : Char(DigitAlpha, k) = Char(d, Len(d))) - 1)

(***************************************************************************)
(* Lists.                                                                  *)
(***************************************************************************)
\* [x for x in xs if x in keep]
SelectIn(xs, keep) == SelectSeq(xs, LAMBDA x : x \in keep)

\* [x for x in xs if x not in drop]
SelectNotIn(xs, drop) == SelectSeq(xs, LAMBDA x : x \notin drop)

\* list(range(1, n + 1))
Indices(n) == [k \in 1..n |-> k]

Range(xs) == {xs[k] : k \in 1..Len(xs)}

\* [x for x in vocabulary if x in text]
Hits(vocabulary, text) ==
    SelectIn(vocabulary, {p \in Range(vocabulary) : IsIn(p, text)})

\* the first occurrence of every element of xs, in order
Dedup(xs) ==
    LET first == SelectSeq(Indices(Len(xs)),
                           LAMBDA k : \A i \in 1..(k - 1) : xs[i] # xs[k])
    IN  [n \in 1..Len(first) |-> xs[first[n]]]

\* sep.join(xs)
RECURSIVE Join(_, _)
Join(xs, sep) ==
    IF xs = <<>> THEN ""
    ELSE IF Len(xs) = 1 THEN xs[1]
    ELSE LET h == Len(xs) \div 2
         IN  Join(SubSeq(xs, 1, h), sep) \o sep \o Join(SubSeq(xs, h + 1, Len(xs)), sep)

(***************************************************************************)
(* re.findall(r'\b[A-Z][a-z]+(?:\s+[A-Z][a-z]+)*\b', text)                 *)
(***************************************************************************)
\* [A-Z][a-z]+ at position i, greedy: the position of its last character,
\* 0 when it does not match there
TitleWordEnd(t, i) ==
    IF /\ i + 1 <= Len(t)
       /\ Char(t, i) \in UpperSet
       /\ Char(t, i + 1) \in LowerSet
    THEN SkipClass(t, i + 1, LowerSet) - 1
    ELSE 0

\* (?:\s+[A-Z][a-z]+)*\b after a word that ends at e: the end of the match,
\* 0 when there is none.  The group is greedy; when the longest run of words
\* is followed by a word character the engine backtracks to the previous
\* word, which is followed by white space.
RECURSIVE TitleRunEnd(_, _)
TitleRunEnd(t, e) ==
    LET j    == SkipClass(t, e + 1, SpaceSet)
        more == IF j > e + 1 THEN TitleWordEnd(t, j) ELSE 0
        far  == IF more > 0 THEN TitleRunEnd(t, more) ELSE 0
    IN  IF far > 0 THEN far
        ELSE IF more > 0 THEN e
        ELSE IF e = Len(t) \/ Char(t, e + 1) \notin WordSet THEN e
        ELSE 0

\* the match that starts at position i: its end, 0 when there is none
TitleMatchEnd(t, i) ==
    IF /\ (i = 1 \/ Char(t, i - 1) \notin WordSet)
       /\ TitleWordEnd(t, i) > 0
    THEN TitleRunEnd(t, TitleWordEnd(t, i))
    ELSE 0

\* re.findall: the matches found scanning from left to right, a match being
\* tried at a position only when no earlier match covers it.  A match that
\* starts inside another one ends where that one ends, so the positions that
\* are tried and match are those no earlier matching position covers.
FindTitleRuns(t) ==
    LET ends   == [i \in 1..Len(t) |->
                      IF Char(t, i) \in UpperSet THEN TitleMatchEnd(t, i) ELSE 0]
        starts == SelectSeq(Indices(Len(t)),
                            LAMBDA i : /\ ends[i] > 0
                                       /\ \A c \in 1..(i - 1) : ends[c] < i)
    IN  [n \in 1..Len(starts) |-> SubSeq(t, starts[n], ends[starts[n]])]

\* LowerLong without the lower-casing: [kw for kw in other_keywords if
\* len(kw) > 2]
LowerLong_kept(kws) == SelectSeq(kws, LAMBDA kw : Len(kw) > 2)

\* [kw.lower() for kw in other_keywords if len(kw) > 2]
LowerLong(kws) ==
    LET long == SelectSeq(kws, LAMBDA kw : Len(kw) > 2)
    IN  [n \in 1..Len(long) |-> Lower(long[n])]

(***************************************************************************)
(* The years patterns  (\d+)\+?\s*years?  followed by nothing, by          *)
(* \s*of\s*experience  or by  \s*in                                        *)
(***************************************************************************)
\* \s*w1\s*w2... from position q: the position after the match, 0 if none
RECURSIVE TailEnd(_, _, _)
TailEnd(t, q, words) ==
    IF words = <<>> THEN q
    ELSE LET p == SkipClass(t, q, SpaceSet)
         IN  IF LitAt(t, p, Head(words))
             THEN TailEnd(t, p + Len(Head(words)), Tail(words))
             ELSE 0

\* the pattern at position i: <<end of the digits, position after the match>>,
\* <<0, 0>> when it does not match there
YearsMatchAt(t, i, words) ==
    IF i > Len(t) \/ Char(t, i) \notin DigitSet THEN <<0, 0>>
    ELSE LET d == SkipClass(t, i, DigitSet)
             p == IF d <= Len(t) /\ Char(t, d) = "+" THEN d + 1 ELSE d
             q == SkipClass(t, p, SpaceSet)
             y == IF LitAt(t, q, "year") THEN q + 4 ELSE 0
             s == IF y > 0 /\ LitAt(t, y, "s") THEN TailEnd(t, y + 1, words) ELSE 0
             n == IF y > 0 THEN TailEnd(t, y, words) ELSE 0
         IN  IF s > 0 THEN <<d - 1, s>>
             ELSE IF n > 0 THEN <<d - 1, n>>
             ELSE <<0, 0>>

\* re.findall(pattern, t): the digit groups of the non-overlapping matches
\* (see FindTitleRuns for the positions that are tried)
FindYears(t, words) ==
    LET ms     == [i \in 1..Len(t) |-> YearsMatchAt(t, i, words)]
        starts == SelectSeq(Indices(Len(t)),
                            LAMBDA i : /\ ms[i][2] > 0
                                       /\ \A c \in 1..(i - 1) : ms[c][2] <= i)
    IN  [n \in 1..Len(starts) |-> SubSeq(t, starts[n], ms[starts[n]][1])]

\* re.search(r'\d+\+?\s*years?', t) is not None
HasYearsPattern(t) ==
    \E i \in 1..Len(t) : YearsMatchAt(t, i, <<>>)[2] > 0

\* text.strip() == ""
IsBlank(text) == \A k \in 1..Len(text) : Char(text, k) \in SpaceSet

\* re.search(r'\d+', t) is not None
HasDigit(t) == \E i \in 1..Len(t) : Char(t, i) \in DigitSet

(***************************************************************************)
(* ATSMatcher.__init__: the three vocabularies.                            *)
(***************************************************************************)
technical_skills ==
    << "javascript", "python", "java", "react", "node.js", "sql", "aws", "docker",
       "kubernetes", "git", "agile", "scrum", "machine learning", "data analysis",
       "html", "css", "typescript", "angular", "vue", "mongodb", "postgresql",
       "redis", "elasticsearch", "kafka", "microservices", "api", "rest", "graphql",
       "tensorflow", "pytorch", "pandas", "numpy", "scikit-learn", "jupyter",
       "jenkins", "terraform", "ansible", "linux", "bash", "powershell",
       "tableau", "power bi", "excel", "vba", "r", "matlab", "spark", "hadoop" >>

soft_skills ==
    << "leadership", "communication", "teamwork", "problem solving", "project management",
       "collaboration", "time management", "adaptability", "creativity", "analytical",
       "critical thinking", "attention to detail", "multitasking", "mentoring",
       "negotiation", "presentation", "writing", "research", "organization",
       "customer service", "sales", "marketing", "strategy", "innovation" >>

action_verbs ==
    << "led", "developed", "implemented", "increased", "improved", "managed", "created",
       "designed", "built", "launched", "optimized", "streamlined", "coordinated",
       "supervised", "trained", "mentored", "collaborated", "delivered", "achieved",
       "accomplished", "executed", "facilitated", "initiated", "organized", "planned" >>

(***************************************************************************)
(* list(set(xs)): the elements of xs without duplicates, in the iteration  *)
(* order of a Python set of str.  That order depends on the string hashes  *)
(* of the process (PYTHONHASHSEED); the model takes the first-occurrence   *)
(* order rotated by the seed, one order per seed.                          *)
(***************************************************************************)
Rotate(xs, k) ==
    IF xs = <<>> THEN xs
    ELSE LET r == k % Len(xs)
         IN  SubSeq(xs, r + 1, Len(xs)) \o SubSeq(xs, 1, r)

\* list(xs) in the place of list(set(xs)): every occurrence is kept
ListOfSet_list(xs, seed) == Rotate(xs, seed)

ListOfSet(xs, seed) == Rotate(Dedup(xs), seed)

(***************************************************************************)
(* Keyword extraction.                                                     *)
(***************************************************************************)
experience_keywords(job_lower) ==
    (IF HasYearsPattern(job_lower) THEN <<"years experience">> ELSE <<>>)
    \o (IF IsIn("senior", job_lower) THEN <<"senior">> ELSE <<>>)
    \o (IF IsIn("junior", job_lower) THEN <<"junior">> ELSE <<>>)
    \o (IF IsIn("lead", job_lower) THEN <<"lead">> ELSE <<>>)

extract_job_keywords(arg, seed) ==
    IF arg.type # "str" \/ arg.value = "" THEN <<>>
    ELSE LET text              == arg.value
             job_lower         == Lower(text)
             technical_found   == Hits(technical_skills, job_lower)
             soft_skills_found == Hits(soft_skills, job_lower)
             other_keywords    == LowerLong(FindTitleRuns(text))
             all_keywords      == technical_found \o soft_skills_found
                                  \o other_keywords \o experience_keywords(job_lower)
         IN  ListOfSet(all_keywords, seed)

\* extract_resume_keywords appending the experience-level signals too, as
\* extract_job_keywords does
extract_resume_keywords_signals(arg, seed) ==
    IF arg.type # "str" \/ arg.value = "" THEN <<>>
    ELSE LET text               == arg.value
             resume_lower       == Lower(text)
             technical_found    == Hits(technical_skills, resume_lower)
             soft_skills_found  == Hits(soft_skills, resume_lower)
             action_verbs_found == Hits(action_verbs, resume_lower)
             other_keywords     == LowerLong(FindTitleRuns(text))
             all_keywords       == technical_found \o soft_skills_found
                                   \o action_verbs_found \o other_keywords
                                   \o experience_keywords(resume_lower)
         IN  ListOfSet(all_keywords, seed)

extract_resume_keywords(arg, seed) ==
    IF arg.type # "str" \/ arg.value = "" THEN <<>>
    ELSE LET text               == arg.value
             resume_lower       == Lower(text)
             technical_found    == Hits(technical_skills, resume_lower)
             soft_skills_found  == Hits(soft_skills, resume_lower)
             action_verbs_found == Hits(action_verbs, resume_lower)
             other_keywords     == LowerLong(FindTitleRuns(text))
             all_keywords       == technical_found \o soft_skills_found
                                   \o action_verbs_found \o other_keywords
         IN  ListOfSet(all_keywords, seed)

(***************************************************************************)
(* Rounding.                                                               *)
(***************************************************************************)
\* n/d rounded to the nearest integer, ties to the even one (n >= 0, d > 0)
RoundHalfEven(n, d) ==
    LET q == n \div d
        r == n % d
    IN  IF 2 * r > d THEN q + 1
        ELSE IF 2 * r < d THEN q
        ELSE IF q % 2 = 0 THEN q ELSE q + 1

\* round(score / total * 100, 2), in hundredths of a percent.  The float
\* result equals the exact one for every total below 160.
Percentage(score, total) == RoundHalfEven(10000 * score, total)

\* round(x) of a float x that was accumulated from products with the binary
\* approximations of 0.3, 0.25, 0.15, 0.1 and 0.05; n is 100 times the exact
\* sum.  When the exact sum ends in .5 the float is either exactly that, and
\* round() takes the even neighbour (tie = "even"), or lies just beside it on
\* the other neighbour's side (tie = "odd"), depending on the operands.
PyRound(n, tie) ==
    LET q == n \div 100
        r == n % 100
    IN  IF r > 50 THEN q + 1
        ELSE IF r < 50 THEN q
        ELSE IF (q % 2 = 0) = (tie = "even") THEN q ELSE q + 1

Min(a, b) == IF a < b THEN a ELSE b

Max(a, b) == IF a > b THEN a ELSE b

(***************************************************************************)
(* The six category scorers.                                               *)
(***************************************************************************)
\* calculate_keyword_match with the percentage cut to a whole number, as
\* int(percentage) would
calculate_keyword_match_truncated(job_keywords, resume_keywords) ==
    IF job_keywords = <<>>
    THEN [score |-> 0, matched |-> 0, total |-> 0, percentage |-> 0]
    ELSE LET matched_keywords == SelectIn(job_keywords, Range(resume_keywords))
             score == Len(matched_keywords)
             total == Len(job_keywords)
         IN  [score |-> score, matched |-> matched_keywords, total |-> total,
              percentage |-> 100 * ((100 * score) \div total)]

calculate_keyword_match(job_keywords, resume_keywords) ==
    IF job_keywords = <<>>
    THEN [score |-> 0, matched |-> 0, total |-> 0, percentage |-> 0]
    ELSE LET matched_keywords == SelectIn(job_keywords, Range(resume_keywords))
             score == Len(matched_keywords)
             total == Len(job_keywords)
         IN  [score |-> score, matched |-> matched_keywords, total |-> total,
              percentage |-> IF total > 0 THEN Percentage(score, total) ELSE 0]

calculate_technical_skills_match(resume, job) ==
    LET job_technical    == Hits(technical_skills, Lower(job))
        resume_technical == Hits(technical_skills, Lower(resume))
    IN  IF job_technical = <<>>
        THEN [score |-> 0, matched |-> 0, total |-> 0, percentage |-> 0]
        ELSE LET matched_technical == SelectIn(job_technical, Range(resume_technical))
                 score == Len(matched_technical)
                 total == Len(job_technical)
             IN  [score |-> score, matched |-> matched_technical, total |-> total,
                  percentage |-> IF total > 0 THEN Percentage(score, total) ELSE 0]

calculate_soft_skills_match(resume, job) ==
    LET job_soft_skills    == Hits(soft_skills, Lower(job))
        resume_soft_skills == Hits(soft_skills, Lower(resume))
    IN  IF job_soft_skills = <<>>
        THEN [score |-> 0, matched |-> 0, total |-> 0, percentage |-> 0]
        ELSE LET matched_soft_skills == SelectIn(job_soft_skills, Range(resume_soft_skills))
                 score == Len(matched_soft_skills)
                 total == Len(job_soft_skills)
             IN  [score |-> score, matched |-> matched_soft_skills, total |-> total,
                  percentage |-> IF total > 0 THEN Percentage(score, total) ELSE 0]

year_patterns == << <<>>, <<"of", "experience">>, <<"in">> >>

\* max(max_years, int(match)) over the matches, from max_years = 0
MaxInt(ds) ==
    LET years == {ParseInt(ds[k]) : k \in 1..Len(ds)} \cup {0}
    IN  CHOOSE y \in years : \A z \in years : z <= y

extract_years_from_text(text) ==
    IF text = "" THEN 0
    ELSE LET low == Lower(text)
         IN  MaxInt(FindYears(low, year_patterns[1])
                    \o FindYears(low, year_patterns[2])
                    \o FindYears(low, year_patterns[3]))

\* the comparisons resume_years >= job_years * 0.8 and * 0.6 in integers;
\* the float products decide the same way for every job_years up to 2000
\* ExperienceScore with the 80% threshold exclusive
ExperienceScore_strict(resume_years, job_years) ==
    IF resume_years >= job_years THEN 100
    ELSE IF 10 * resume_years > 8 * job_years THEN 80
    ELSE IF 10 * resume_years >= 6 * job_years THEN 60
    ELSE 30

ExperienceScore(resume_years, job_years) ==
    IF resume_years >= job_years THEN 100
    ELSE IF 10 * resume_years >= 8 * job_years THEN 80
    ELSE IF 10 * resume_years >= 6 * job_years THEN 60
    ELSE 30

\* calculate_experience_match counting 80% of the required years as a
\* match
calculate_experience_match_lenient(resume, job) ==
    LET job_years    == extract_years_from_text(job)
        resume_years == extract_years_from_text(resume)
    IN  IF job_years = 0
        THEN [score |-> 50, job_years |-> 0, resume_years |-> resume_years,
              match |-> TRUE]
        ELSE [score |-> ExperienceScore(resume_years, job_years),
              job_years |-> job_years, resume_years |-> resume_years,
              match |-> 10 * resume_years >= 8 * job_years]

\* calculate_experience_match taking a resume that states no years as it
\* takes a job that states none
calculate_experience_match_neutral(resume, job) ==
    LET job_years    == extract_years_from_text(job)
        resume_years == extract_years_from_text(resume)
    IN  IF job_years = 0 \/ resume_years = 0
        THEN [score |-> 50, job_years |-> 0, resume_years |-> resume_years,
              match |-> TRUE]
        ELSE [score |-> ExperienceScore(resume_years, job_years),
              job_years |-> job_years, resume_years |-> resume_years,
              match |-> resume_years >= job_years]

calculate_experience_match(resume, job) ==
    LET job_years    == extract_years_from_text(job)
        resume_years == extract_years_from_text(resume)
    IN  IF job_years = 0
        THEN [score |-> 50, job_years |-> 0, resume_years |-> resume_years,
              match |-> TRUE]
        ELSE [score |-> ExperienceScore(resume_years, job_years),
              job_years |-> job_years, resume_years |-> resume_years,
              match |-> resume_years >= job_years]

extract_education_requirements(text) ==
    LET text_lower == Lower(text)
    IN  (IF IsIn("bachelor", text_lower) \/ IsIn("bachelor's", text_lower)
         THEN <<"Bachelor's Degree">> ELSE <<>>)
        \o (IF IsIn("master", text_lower) \/ IsIn("master's", text_lower)
            THEN <<"Master's Degree">> ELSE <<>>)
        \o (IF IsIn("phd", text_lower) \/ IsIn("doctorate", text_lower)
            THEN <<"PhD">> ELSE <<>>)
        \o (IF IsIn("certification", text_lower) \/ IsIn("certified", text_lower)
            THEN <<"Certification">> ELSE <<>>)

extract_education_from_resume(text) ==
    LET text_lower == Lower(text)
    IN  (IF IsIn("bachelor", text_lower) \/ IsIn("bachelor's", text_lower)
         THEN <<"Bachelor's Degree">> ELSE <<>>)
        \o (IF IsIn("master", text_lower) \/ IsIn("master's", text_lower)
            THEN <<"Master's Degree">> ELSE <<>>)
        \o (IF IsIn("phd", text_lower) \/ IsIn("doctorate", text_lower)
            THEN <<"PhD">> ELSE <<>>)
        \o (IF IsIn("certification", text_lower) \/ IsIn("certified", text_lower)
            THEN <<"Certification">> ELSE <<>>)

\* calculate_education_match asking for all() of the job's qualifications
calculate_education_match_all(resume, job) ==
    LET job_education    == extract_education_requirements(job)
        resume_education == extract_education_from_resume(resume)
        match == \A k \in 1..Len(job_education) :
                     job_education[k] \in Range(resume_education)
    IN  IF job_education = <<>>
        THEN [score |-> 50, job_education |-> <<>>,
              resume_education |-> resume_education, match |-> TRUE]
        ELSE [score |-> IF match THEN 100 ELSE 30,
              job_education |-> job_education,
              resume_education |-> resume_education, match |-> match]

\* calculate_education_match asking for the resume's qualifications to be
\* exactly the job's
calculate_education_match_exact(resume, job) ==
    LET job_education    == extract_education_requirements(job)
        resume_education == extract_education_from_resume(resume)
        match == resume_education = job_education
    IN  IF job_education = <<>>
        THEN [score |-> 50, job_education |-> <<>>,
              resume_education |-> resume_education, match |-> TRUE]
        ELSE [score |-> IF match THEN 100 ELSE 30,
              job_education |-> job_education,
              resume_education |-> resume_education, match |-> match]

calculate_education_match(resume, job) ==
    LET job_education    == extract_education_requirements(job)
        resume_education == extract_education_from_resume(resume)
        match == \E k \in 1..Len(job_education) :
                     job_education[k] \in Range(resume_education)
    IN  IF job_education = <<>>
        THEN [score |-> 50, job_education |-> <<>>,
              resume_education |-> resume_education, match |-> TRUE]
        ELSE [score |-> IF match THEN 100 ELSE 30,
              job_education |-> job_education,
              resume_education |-> resume_education, match |-> match]

\* calculate_action_verbs_score without the cap at 100
calculate_action_verbs_score_uncapped(resume) ==
    LET found_verbs == Hits(action_verbs, Lower(resume))
    IN  [score |-> Len(found_verbs) * 10,
         found_verbs |-> found_verbs, count |-> Len(found_verbs)]

calculate_action_verbs_score(resume) ==
    LET found_verbs == Hits(action_verbs, Lower(resume))
    IN  [score |-> Min(100, Len(found_verbs) * 10),
         found_verbs |-> found_verbs, count |-> Len(found_verbs)]

(***************************************************************************)
(* The aggregate score.                                                    *)
(***************************************************************************)
\* the weights, in hundredths
weights ==
    [keyword |-> 30, technical |-> 25, soft_skills |-> 15,
     experience |-> 15, education |-> 10, action_verbs |-> 5]

\* scores[category].get('score', 0).  The score field of every category is a
\* number, so the isinstance(score, dict) branch that would take the
\* percentage instead is never entered.
WeightedValue(category_score) == category_score.score

\* calculate_overall_score returning round(overall_score) without the clamp
calculate_overall_score_unclamped(scores, tie) ==
    PyRound(WeightedValue(scores.keyword) * weights.keyword
            + WeightedValue(scores.technical) * weights.technical
            + WeightedValue(scores.soft_skills) * weights.soft_skills
            + WeightedValue(scores.experience) * weights.experience
            + WeightedValue(scores.education) * weights.education
            + WeightedValue(scores.action_verbs) * weights.action_verbs, tie)

calculate_overall_score(scores, tie) ==
    LET overall_score ==
            WeightedValue(scores.keyword) * weights.keyword
            + WeightedValue(scores.technical) * weights.technical
            + WeightedValue(scores.soft_skills) * weights.soft_skills
            + WeightedValue(scores.experience) * weights.experience
            + WeightedValue(scores.education) * weights.education
            + WeightedValue(scores.action_verbs) * weights.action_verbs
    IN  Min(100, Max(0, PyRound(overall_score, tie)))

(***************************************************************************)
(* Matched and missing keywords, suggestions, analysis.                    *)
(***************************************************************************)
\* find_missing_keywords with its two lists taken the wrong way round
find_missing_keywords_swapped(job_keywords, resume_keywords) ==
    SelectNotIn(resume_keywords, Range(job_keywords))

find_missing_keywords(job_keywords, resume_keywords) ==
    SelectNotIn(job_keywords, Range(resume_keywords))

find_matched_keywords(job_keywords, resume_keywords) ==
    SelectIn(job_keywords, Range(resume_keywords))

SuggestKeywords == "Add more relevant keywords from the job description"

SuggestMissing(top_missing) ==
    "Consider adding these keywords: " \o Join(top_missing, ", ")

SuggestNumbers == "Add quantified achievements with specific numbers and metrics"

SuggestVerbs == "Use more strong action verbs to describe your achievements"

SuggestSummary == "Add a compelling professional summary section"

summary_markers == <<"summary", "objective", "profile">>

\* generate_suggestions with the digit check nested under the score check
generate_suggestions_nested(overall_score, missing_keywords, resume, job) ==
    LET resume_lower      == Lower(resume)
        action_verb_count == Len(Hits(action_verbs, resume_lower))
    IN  (IF overall_score < 60 THEN <<SuggestKeywords>> ELSE <<>>)
        \o (IF missing_keywords # <<>>
            THEN <<SuggestMissing(SubSeq(missing_keywords, 1,
                                         Min(5, Len(missing_keywords))))>>
            ELSE <<>>)
        \o (IF overall_score < 60 /\ ~HasDigit(resume)
            THEN <<SuggestNumbers>> ELSE <<>>)
        \o (IF action_verb_count < 3 THEN <<SuggestVerbs>> ELSE <<>>)
        \o (IF Hits(summary_markers, resume_lower) = <<>>
            THEN <<SuggestSummary>> ELSE <<>>)

generate_suggestions(overall_score, missing_keywords, resume, job) ==
    LET resume_lower      == Lower(resume)
        action_verb_count == Len(Hits(action_verbs, resume_lower))
    IN  (IF overall_score < 60 THEN <<SuggestKeywords>> ELSE <<>>)
        \o (IF missing_keywords # <<>>
            THEN <<SuggestMissing(SubSeq(missing_keywords, 1,
                                         Min(5, Len(missing_keywords))))>>
            ELSE <<>>)
        \o (IF ~HasDigit(resume) THEN <<SuggestNumbers>> ELSE <<>>)
        \o (IF action_verb_count < 3 THEN <<SuggestVerbs>> ELSE <<>>)
        \o (IF Hits(summary_markers, resume_lower) = <<>>
            THEN <<SuggestSummary>> ELSE <<>>)

\* generate_analysis with the 80 boundary left to the lower label
generate_analysis_exclusive(overall_score, keyword_score, technical_score) ==
    [overall |->
        IF overall_score > 80 THEN "Excellent ATS compatibility"
        ELSE IF overall_score >= 60 THEN "Good compatibility, minor improvements needed"
        ELSE IF overall_score >= 40 THEN "Fair compatibility, significant improvements needed"
        ELSE "Poor compatibility, major optimization required",
     keywords |->
        IF keyword_score.percentage >= 7000 THEN "Strong keyword match"
        ELSE IF keyword_score.percentage >= 5000 THEN "Moderate keyword match"
        ELSE "Weak keyword match",
     technical |->
        IF technical_score.percentage >= 7000 THEN "Strong technical skills match"
        ELSE IF technical_score.percentage >= 5000 THEN "Moderate technical skills match"
        ELSE "Weak technical skills match"]

\* generate_analysis with the technical label taken from the keyword
\* percentage
generate_analysis_shared(overall_score, keyword_score, technical_score) ==
    [overall |->
        IF overall_score >= 80 THEN "Excellent ATS compatibility"
        ELSE IF overall_score >= 60 THEN "Good compatibility, minor improvements needed"
        ELSE IF overall_score >= 40 THEN "Fair compatibility, significant improvements needed"
        ELSE "Poor compatibility, major optimization required",
     keywords |->
        IF keyword_score.percentage >= 7000 THEN "Strong keyword match"
        ELSE IF keyword_score.percentage >= 5000 THEN "Moderate keyword match"
        ELSE "Weak keyword match",
     technical |->
        IF keyword_score.percentage >= 7000 THEN "Strong technical skills match"
        ELSE IF keyword_score.percentage >= 5000 THEN "Moderate technical skills match"
        ELSE "Weak technical skills match"]

generate_analysis(overall_score, keyword_score, technical_score) ==
    [overall |->
        IF overall_score >= 80 THEN "Excellent ATS compatibility"
        ELSE IF overall_score >= 60 THEN "Good compatibility, minor improvements needed"
        ELSE IF overall_score >= 40 THEN "Fair compatibility, significant improvements needed"
        ELSE "Poor compatibility, major optimization required",
     keywords |->
        IF keyword_score.percentage >= 7000 THEN "Strong keyword match"
        ELSE IF keyword_score.percentage >= 5000 THEN "Moderate keyword match"
        ELSE "Weak keyword match",
     technical |->
        IF technical_score.percentage >= 7000 THEN "Strong technical skills match"
        ELSE IF technical_score.percentage >= 5000 THEN "Moderate technical skills match"
        ELSE "Weak technical skills match"]

\* get_score_category of the scoring route
get_score_category(score) ==
    IF score >= 80 THEN "Excellent ATS compatibility"
    ELSE IF score >= 60 THEN "Good compatibility, minor improvements needed"
    ELSE IF score >= 40 THEN "Fair compatibility, significant improvements needed"
    ELSE "Poor compatibility, major optimization required"

(***************************************************************************)
(* calculate_ats_score: the call as one step, which leaves the returned    *)
(* dict in result.  The locals are bound in the order of the statements of *)
(* the try block.  The extractors return [] for None; the technical scorer *)
(* then calls .lower() on its arguments, which raises AttributeError for   *)
(* None, and the except branch returns the error dict.                     *)
(***************************************************************************)
ErrorResult ==
    [overall_score |-> 0,
     error |-> "Error calculating ATS score: 'NoneType' object has no attribute 'lower'"]

calculate_ats_score(resume_arg, job_arg, seed, tie) ==
    \E job_keywords \in {extract_job_keywords(job_arg, seed)},
       resume_keywords \in {extract_resume_keywords(resume_arg, seed)} :
    \E keyword_score \in {calculate_keyword_match(job_keywords, resume_keywords)} :
    IF resume_arg.type # "str" \/ job_arg.type # "str"
    THEN result' = ErrorResult
    ELSE
    \E technical_score \in
          {calculate_technical_skills_match(resume_arg.value, job_arg.value)},
       soft_skills_score \in
          {calculate_soft_skills_match(resume_arg.value, job_arg.value)},
       experience_score \in
          {calculate_experience_match(resume_arg.value, job_arg.value)},
       education_score \in
          {calculate_education_match(resume_arg.value, job_arg.value)},
       action_verbs_score \in
          {calculate_action_verbs_score(resume_arg.value)} :
    \E overall_score \in
          {calculate_overall_score(
              [keyword |-> keyword_score, technical |-> technical_score,
               soft_skills |-> soft_skills_score, experience |-> experience_score,
               education |-> education_score, action_verbs |-> action_verbs_score],
              tie)},
       missing_keywords \in {find_missing_keywords(job_keywords, resume_keywords)} :
    \E suggestions \in
          {generate_suggestions(overall_score, missing_keywords,
                                resume_arg.value, job_arg.value)} :
        result' =
            [overall_score      |-> overall_score,
             keyword_score      |-> keyword_score,
             technical_score    |-> technical_score,
             soft_skills_score  |-> soft_skills_score,
             experience_score   |-> experience_score,
             education_score    |-> education_score,
             action_verbs_score |-> action_verbs_score,
             missing_keywords   |-> missing_keywords,
             suggestions        |-> suggestions,
             matched_keywords   |-> find_matched_keywords(job_keywords, resume_keywords),
             analysis           |-> generate_analysis(overall_score, keyword_score,
                                                      technical_score)]

(***************************************************************************)
(* The texts the matcher is called with.                                   *)
(***************************************************************************)
MaxYears == 10

MaxVerbs == 11

MaxCaps == 120

MaxHashSeed == 1

MaxSkills == 9

\* the numbers of listed items at which the overall score of the portfolio
\* pair passes from 39 to 40, from 59 to 60 and from 79 to 80
PortfolioSizes == {16, 17, 54, 55, 112, 114}

\* str(n) for n >= 0
RECURSIVE ToStr(_)
ToStr(n) ==
    IF n < 10 THEN Char(DigitAlpha, n + 1)
    ELSE ToStr(n \div 10) \o Char(DigitAlpha, (n % 10) + 1)

\* the k-th of a family of distinct capitalised words that contain no
\* vocabulary phrase
CapsToken(k) ==
    LET letters == "quxz"
        D(d)    == Char(letters, (d % 4) + 1)
    IN  "Z" \o D(k \div 64) \o D(k \div 16) \o D(k \div 4) \o D(k)

\* n distinct capitalised words separated by commas
CapsText(n) == Join([k \in 1..n |-> CapsToken(k)], ", ")

VerbsText(n) == Join(SubSeq(action_verbs, 1, n), ", ")

YearsJob(n) == "Need " \o ToStr(n) \o "+ years"

YearsResume(n) == ToStr(n) \o " years of experience"

ScenarioAJob ==
    "Looking for a Python developer with AWS and leadership skills, 5+ years experience, Bachelor's degree required."

ScenarioAResume ==
    "Senior Python engineer, led AWS migration, Bachelor's degree, 6 years experience."

ScenarioBJob == "Need 10+ years senior architect, PhD required."

RichJob ==
    Join(technical_skills, ", ") \o ", " \o Join(soft_skills, ", ")
    \o ", bachelor"

RichResume ==
    "Summary: Lead. " \o Join(technical_skills, ", ") \o ", "
    \o Join(soft_skills, ", ") \o ", " \o VerbsText(10) \o ", bachelor"

\* the first n phrases of the technical and soft-skill vocabularies
SkillsText(n) == Join(SubSeq(technical_skills \o soft_skills, 1, n), ", ")

\* the first n of the vocabulary phrases followed by distinct capitalised
\* words
PortfolioText(n) ==
    LET phrases == technical_skills \o soft_skills
    IN  Join([k \in 1..n |-> IF k <= Len(phrases) THEN phrases[k]
                                  ELSE CapsToken(k - Len(phrases))], ", ")

\* a resume that meets the stated years and degree, has ten action verbs
\* and lists the n items; the job that asks for them
PortfolioResume(n) ==
    "Summary: 9 years, bachelor, " \o VerbsText(10) \o ", " \o PortfolioText(n)

PortfolioJob(n) == "5 years, bachelor, " \o PortfolioText(n)

EdgeJobs ==
    {PyNone, Str(""), Str("asdf qwe zxcv"), Str("asdf qwer zxcv"),
     Str("sql git css"), Str(ScenarioAJob), Str(ScenarioBJob)}

EdgeResumes ==
    {PyNone, Str(""), Str(" \n "), Str("sql"), Str("Profile: sql, git, css; led 2 teams"),
     Str(ScenarioAResume)}

EduTexts ==
    {"", "Bachelor's degree", "master", "PhD", "doctorate", "certified",
     "Master's and certification"}

\* the <<resume, job>> pairs
Calls ==
    (EdgeResumes \X EdgeJobs)
    \cup {<<Str(YearsResume(r)), Str(YearsJob(j))>> : r \in 0..MaxYears, j \in 0..MaxYears}
    \cup {<<Str(r), Str(j)>> : r \in EduTexts, j \in EduTexts}
    \cup {<<Str(VerbsText(n)), j>> : n \in 1..MaxVerbs, j \in {Str(""), Str(ScenarioAJob)}}
    \cup {<<Str(SkillsText(a)), Str(SkillsText(b))>> : a, b \in 0..MaxSkills}
    \cup {<<Str(PortfolioResume(n)), Str(PortfolioJob(n))>> : n \in PortfolioSizes}
    \cup {<<Str(ScenarioAResume), Str(ScenarioAResume)>>,
          <<Str(RichResume), Str(RichJob)>>,
          <<Str(RichResume \o " since 2019"), Str(RichJob)>>,
          <<Str(RichResume \o ", " \o CapsText(MaxCaps) \o ", 6 Years Experience"),
            Str(RichJob \o ", " \o CapsText(MaxCaps) \o ", 5+ years")>>,
          <<Str(CapsText(MaxCaps)), Str(CapsText(MaxCaps))>>}

NoResult == [pending |-> TRUE]

\* no optimization request is being served
NoRequest == [idle |-> TRUE]

\* CronCleaner.__init__: no scheduler, and no job in the schedule module
CronConstructed ==
    /\ running = FALSE
    /\ cleanup_thread = PyNone
    /\ threads = <<>>
    /\ jobs = 0
    /\ cron_log = ""

\* no email request
MailIdle ==
    /\ tmp_files = {}
    /\ services = NoRequest
    /\ outbox = <<>>

Init ==
    /\ \E call \in Calls :
          /\ resume_text = call[1]
          /\ job_description = call[2]
    /\ hashseed \in 0..MaxHashSeed
    /\ fp_tie \in {"even", "odd"}
    /\ pc = "start"
    /\ result = NoResult
    /\ earlier = NoResult
    /\ request = NoRequest
    /\ ollama = NoRequest
    /\ ai_pc = "idle"
    /\ response = NoRequest
    /\ CronConstructed
    /\ MailIdle

\* one call of ATSMatcher.calculate_ats_score
Calculate ==
    /\ pc = "start"
    /\ calculate_ats_score(resume_text, job_description, hashseed, fp_tie)
    /\ pc' = "done"
    /\ UNCHANGED <<resume_text, job_description, hashseed, fp_tie, earlier>>
    /\ UNCHANGED <<ai_vars, cron_vars, mail_vars>>

Next == Calculate

Spec == Init /\ [][Next]_vars

(***************************************************************************)
(* Two calls with the same two texts.                                      *)
(***************************************************************************)
\* the caller keeps what the call returned and calls the same matcher again
\* with the same two texts.  The matcher has no field that a call writes, so
\* nothing else is carried over.
CallAgain ==
    /\ pc = "done"
    /\ earlier = NoResult
    /\ earlier' = result
    /\ result' = NoResult
    /\ pc' = "start"
    /\ UNCHANGED <<resume_text, job_description, hashseed, fp_tie>>
    /\ UNCHANGED <<ai_vars, cron_vars, mail_vars>>

\* as CallAgain, the second call being served by another interpreter
\* process (a restart, another worker): the string hashes of a process are
\* salted with a seed drawn when it starts
Restart ==
    /\ pc = "done"
    /\ earlier = NoResult
    /\ earlier' = result
    /\ result' = NoResult
    /\ pc' = "start"
    /\ hashseed' \in 0..MaxHashSeed
    /\ UNCHANGED <<resume_text, job_description, fp_tie>>
    /\ UNCHANGED <<ai_vars, cron_vars, mail_vars>>

NextTwice == Calculate \/ CallAgain \/ Restart

SpecTwice == Init /\ [][NextTwice]_vars

(***************************************************************************)
(* A resume scored, revised and scored again for the same job.  Here       *)
(* earlier keeps the first resume with its result.                         *)
(***************************************************************************)
TwoYearsResume(a, b) == YearsResume(a) \o ", then " \o YearsResume(b)

ResumeVersions ==
    {"", "sql", "master", "Master's and certification",
     "Profile: sql, git, css; led 2 teams",
     "Profile: sql, git, css; led 2 teams, managed 3 people; 4 years of experience; Bachelor",
     ScenarioAResume,
     ScenarioAResume \o " Led Teams. Master's degree, 8 years in Python, communication",
     SkillsText(2), SkillsText(5), VerbsText(2), VerbsText(MaxVerbs),
     YearsResume(3), TwoYearsResume(3, 4), TwoYearsResume(3, 5)}

VersionJobs ==
    {ScenarioAJob, ScenarioBJob, YearsJob(5), SkillsText(5), "sql git css",
     "Master or PhD, certified; led"}

InitVersions ==
    /\ resume_text \in {Str(r) : r \in ResumeVersions}
    /\ job_description \in {Str(j) : j \in VersionJobs}
    /\ hashseed \in 0..MaxHashSeed
    /\ fp_tie \in {"even", "odd"}
    /\ pc = "start"
    /\ result = NoResult
    /\ earlier = NoResult
    /\ request = NoRequest
    /\ ollama = NoRequest
    /\ ai_pc = "idle"
    /\ response = NoRequest
    /\ CronConstructed
    /\ MailIdle

\* the same process is given another version of the resume
Revise ==
    /\ pc = "done"
    /\ earlier = NoResult
    /\ earlier' = [resume_text |-> resume_text, result |-> result]
    /\ resume_text' \in {Str(r) : r \in ResumeVersions}
    /\ result' = NoResult
    /\ pc' = "start"
    /\ UNCHANGED <<job_description, hashseed, fp_tie>>
    /\ UNCHANGED <<ai_vars, cron_vars, mail_vars>>

NextVersions == Calculate \/ Revise

SpecVersions == InitVersions /\ [][NextVersions]_vars

(***************************************************************************)
(* Resume optimization: AIEngine.optimize_resume (backend/utils/           *)
(* ai_engine.py) and POST /resume (backend/routes/transform.py), with the  *)
(* Ollama service that both call.  A request is served in one step, in     *)
(* which the service answers the way the variable ollama says.             *)
(***************************************************************************)
\* how a call of requests.get or requests.post ends: with a response, or
\* with an exception of requests.exceptions
HttpResponse(status_code, body) ==
    [kind |-> "response", status_code |-> status_code, body |-> body]

HttpError(class) == [kind |-> class]

\* a response body that is not JSON: response.json() raises
InvalidJson == [invalid |-> TRUE]

\* except requests.exceptions.ConnectionError; ConnectTimeout is a subclass
\* of ConnectionError and of Timeout, ReadTimeout of Timeout only
IsConnectionError(outcome) == outcome.kind \in {"ConnectionError", "ConnectTimeout"}

\* except requests.exceptions.Timeout
IsTimeout(outcome) == outcome.kind \in {"ConnectTimeout", "ReadTimeout"}

\* str(e) of the exception of requests
ErrorText(outcome) ==
    IF outcome.kind = "ReadTimeout"
    THEN "HTTPConnectionPool(host='localhost', port=11434): Read timed out. (read timeout=60)"
    ELSE IF outcome.kind = "ConnectTimeout"
    THEN "HTTPConnectionPool(host='localhost', port=11434): Max retries exceeded with url: /api/generate (Caused by ConnectTimeoutError)"
    ELSE "HTTPConnectionPool(host='localhost', port=11434): Max retries exceeded with url: /api/generate (Caused by NewConnectionError)"

\* str(e) of the error of response.json()
JsonErrorText == "Expecting value: line 1 column 1 (char 0)"

\* what a function gives back: the value it returns or the Exception it
\* raises
Value(v) == [ok |-> TRUE, value |-> v]

Raise(message) == [ok |-> FALSE, message |-> message]

\* result.get("response", "")
ResponseField(body) ==
    IF "response" \in DOMAIN body THEN body.response ELSE ""

\* self.model: os.getenv("AI_MODEL", "mistral")
ai_model == "mistral"

\* str.upper() on one character
UpperChar(c) ==
    IF c \in LowerSet
    THEN Char(UpperAlpha, CHOOSE k \in 1..26 : Char(LowerAlpha, k) = c)
    ELSE c

\* str.title(): a letter that follows no letter is put in upper case, every
\* other letter in lower case
Title(t) ==
    Join([k \in 1..Len(t) |->
             IF k = 1 \/ Char(t, k - 1) \notin UpperSet \cup LowerSet
             THEN UpperChar(Char(t, k))
             ELSE LowerChar(Char(t, k))], "")

\* len(t.split())
WordCount(t) ==
    Cardinality({k \in 1..Len(t) :
                    /\ Char(t, k) \notin SpaceSet
                    /\ k = 1 \/ Char(t, k - 1) \in SpaceSet})

\* len(re.findall(r'\d+', t))
NumberCount(t) ==
    Cardinality({k \in 1..Len(t) :
                    /\ Char(t, k) \in DigitSet
                    /\ k = 1 \/ Char(t, k - 1) \notin DigitSet})

\* the bullets of the KEY SKILLS lines.  They are characters outside ASCII,
\* written here by name: U+2022 in ai_engine.py, and in transform.py the
\* three characters U+00E2 U+20AC U+00A2.
EngineBullet == "<bullet> "

RouteBullet == "<a-circumflex><euro><cent> "

\* "\n".join(optimized_sections) of the two fallback_optimization
optimized_sections(job_keywords, bullet) ==
    Join(<< "**CONTACT INFORMATION**",
            "[Add your contact details here]",
            "",
            "**PROFESSIONAL SUMMARY**",
            "Results-driven professional with expertise in key areas relevant to this position.",
            "",
            "**PROFESSIONAL EXPERIENCE**",
            "[Your work experience with quantified achievements]",
            "",
            "**KEY SKILLS**" >>
         \o [k \in 1..Min(10, Len(job_keywords)) |-> bullet \o Title(job_keywords[k])]
         \o << "", "**EDUCATION**", "[Your educational background]" >>,
         "\n")

(***************************************************************************)
(* AIEngine.                                                               *)
(***************************************************************************)
tech_skills ==
    << "javascript", "python", "java", "react", "node.js", "sql", "aws", "docker",
       "kubernetes", "git", "agile", "scrum", "machine learning", "data analysis" >>

extract_keywords_from_job(job) ==
    IF job = "" THEN <<>> ELSE Hits(tech_skills, Lower(job))

improvement_verbs ==
    << "led", "developed", "implemented", "increased", "improved", "managed",
       "created", "designed" >>

extract_improvements(original, optimized) ==
    LET action_verb_count_opt  == Len(Hits(improvement_verbs, Lower(optimized)))
        action_verb_count_orig == Len(Hits(improvement_verbs, Lower(original)))
        improvements ==
            (IF 10 * WordCount(optimized) > 12 * WordCount(original)
             THEN <<"Enhanced content with relevant keywords">> ELSE <<>>)
            \o (IF NumberCount(optimized) > NumberCount(original)
                THEN <<"Added quantified achievements and metrics">> ELSE <<>>)
            \o (IF action_verb_count_opt > action_verb_count_orig
                THEN <<"Enhanced with strong action verbs">> ELSE <<>>)
            \o (IF IsIn("**PROFESSIONAL SUMMARY**", optimized)
                THEN <<"Added compelling professional summary">> ELSE <<>>)
            \o (IF IsIn("**KEY SKILLS**", optimized)
                THEN <<"Organized skills section for better visibility">> ELSE <<>>)
    IN  IF improvements = <<>> THEN <<"General ATS optimization applied">>
        ELSE improvements

\* calculate_optimization_score adding 10 for every improvement
calculate_optimization_score_flat(original, optimized) ==
    LET action_verb_count_opt  == Len(Hits(improvement_verbs, Lower(optimized)))
        action_verb_count_orig == Len(Hits(improvement_verbs, Lower(original)))
    IN  Min(100,
            50
            + (IF 10 * WordCount(optimized) > 11 * WordCount(original) THEN 10 ELSE 0)
            + (IF NumberCount(optimized) > NumberCount(original) THEN 10 ELSE 0)
            + (IF action_verb_count_opt > action_verb_count_orig THEN 10 ELSE 0)
            + (IF IsIn("**PROFESSIONAL SUMMARY**", optimized) THEN 10 ELSE 0)
            + (IF IsIn("**KEY SKILLS**", optimized) THEN 10 ELSE 0))

calculate_optimization_score(original, optimized) ==
    LET action_verb_count_opt  == Len(Hits(improvement_verbs, Lower(optimized)))
        action_verb_count_orig == Len(Hits(improvement_verbs, Lower(original)))
    IN  Min(100,
            50
            + (IF 10 * WordCount(optimized) > 11 * WordCount(original) THEN 10 ELSE 0)
            + (IF NumberCount(optimized) > NumberCount(original) THEN 15 ELSE 0)
            + (IF action_verb_count_opt > action_verb_count_orig THEN 10 ELSE 0)
            + (IF IsIn("**PROFESSIONAL SUMMARY**", optimized) THEN 10 ELSE 0)
            + (IF IsIn("**KEY SKILLS**", optimized) THEN 5 ELSE 0))

fallback_optimization(cv_text, job, tone) ==
    [success            |-> TRUE,
     optimized_resume   |-> optimized_sections(extract_keywords_from_job(job), EngineBullet),
     improvements       |-> <<"Basic ATS optimization applied",
                              "Keywords added from job description">>,
     optimization_score |-> 60,
     tone_applied       |-> tone,
     ai_model           |-> "fallback",
     method             |-> "rule_based_optimization"]

\* any exception of the GET /api/tags call makes it False
check_ollama_availability(tags) ==
    tags.kind = "response" /\ tags.status_code = 200

call_ollama_api(generate) ==
    IF IsConnectionError(generate) THEN Raise("Cannot connect to Ollama service")
    ELSE IF IsTimeout(generate) THEN Raise("AI request timed out")
    ELSE IF generate.status_code # 200
    THEN Raise("API call failed: Ollama API error: " \o ToStr(generate.status_code))
    ELSE IF generate.body = InvalidJson
    THEN Raise("API call failed: " \o JsonErrorText)
    ELSE Value(ResponseField(generate.body))

generate_optimized_resume(generate) ==
    LET answer == call_ollama_api(generate)
    IN  IF ~answer.ok THEN Raise("AI generation failed: " \o answer.message)
        ELSE IF answer.value = ""
        THEN Raise("AI generation failed: No response from AI model")
        ELSE answer

optimize_resume(cv_text, job, tone, service) ==
    IF ~check_ollama_availability(service.tags)
    THEN fallback_optimization(cv_text, job, tone)
    ELSE LET optimized_text == generate_optimized_resume(service.generate)
         IN  IF ~optimized_text.ok
             THEN fallback_optimization(cv_text, job, tone)
             ELSE [success            |-> TRUE,
                   optimized_resume   |-> optimized_text.value,
                   improvements       |-> extract_improvements(cv_text, optimized_text.value),
                   optimization_score |->
                       calculate_optimization_score(cv_text, optimized_text.value),
                   tone_applied       |-> tone,
                   ai_model           |-> ai_model,
                   method             |-> "ai_optimization"]

(***************************************************************************)
(* The transform route.                                                    *)
(***************************************************************************)
route_soft_skills ==
    << "leadership", "communication", "teamwork", "problem solving",
       "project management", "collaboration", "time management", "adaptability",
       "creativity", "analytical" >>

route_extract_keywords_from_job(job) ==
    Hits(tech_skills \o route_soft_skills, Lower(job))

route_fallback_optimization(cv_text, job, tone) ==
    optimized_sections(route_extract_keywords_from_job(job), RouteBullet)

route_extract_improvements(original, optimized) ==
    extract_improvements(original, optimized)

generate_ats_resume(cv_text, job, tone, generate) ==
    IF generate.kind = "response"
    THEN IF generate.status_code # 200
         THEN Raise("AI generation failed: Ollama API error: "
                    \o ToStr(generate.status_code))
         ELSE IF generate.body = InvalidJson
         THEN Raise("AI generation failed: " \o JsonErrorText)
         ELSE IF ResponseField(generate.body) = ""
         THEN Raise("AI generation failed: No response from AI model")
         ELSE Value(ResponseField(generate.body))
    ELSE IF IsConnectionError(generate)
    THEN Value(route_fallback_optimization(cv_text, job, tone))
    ELSE Raise("AI generation failed: " \o ErrorText(generate))

\* the response to a request that ended with HTTPException(status_code,
\* detail)
HTTPException(status_code, detail) ==
    [status_code |-> status_code, detail |-> detail]

\* The two checks of the texts raise HTTPException(400) inside the try block,
\* whose except Exception clause answers 500 with str() of what it caught
\* (for an HTTPException of Starlette "<status_code>: <detail>").
transform_resume(cv_text, job, tone, service) ==
    IF IsBlank(cv_text)
    THEN HTTPException(500, "Error transforming resume: 400: CV text is required")
    ELSE IF IsBlank(job)
    THEN HTTPException(500, "Error transforming resume: 400: Job description is required")
    ELSE LET optimized_resume == generate_ats_resume(cv_text, job, tone, service.generate)
         IN  IF ~optimized_resume.ok
             THEN HTTPException(500, "Error transforming resume: "
                                     \o optimized_resume.message)
             ELSE [status_code |-> 200,
                   body |-> [success          |-> TRUE,
                             optimized_resume |-> optimized_resume.value,
                             improvements     |->
                                 route_extract_improvements(cv_text, optimized_resume.value),
                             tone_applied     |-> tone,
                             message          |-> "Resume optimized successfully"]]

(***************************************************************************)
(* The requests and the answers of the service.                            *)
(***************************************************************************)
GeneratedResume ==
    "**PROFESSIONAL SUMMARY**\nLed 3 teams and developed 12 services.\n**KEY SKILLS**\nPython, AWS"

GeneratedTexts ==
    {"Improved resume", "Managed 40 accounts", "**KEY SKILLS**\nPython, AWS",
     GeneratedResume}

Requests ==
    [entry           : {"optimize_resume", "transform_resume"},
     cv_text         : {"", " \n ", "Profile: sql, git, css; led 2 teams", ScenarioAResume},
     job_description : {"", "asdf qwe zxcv", "sql git css", ScenarioAJob},
     tone            : {"professional", "creative"}]

TagsOutcomes ==
    {HttpResponse(200, [models |-> <<>>]), HttpResponse(503, InvalidJson),
     HttpError("ConnectionError"), HttpError("ReadTimeout")}

GenerateOutcomes ==
    {HttpResponse(200, [response |-> t]) : t \in GeneratedTexts \cup {""}}
    \cup {HttpResponse(200, [error |-> "model not found"]),
          HttpResponse(200, InvalidJson),
          HttpResponse(500, InvalidJson),
          HttpError("ConnectionError"), HttpError("ConnectTimeout"),
          HttpError("ReadTimeout")}

InitAI ==
    /\ resume_text = Str("")
    /\ job_description = Str("")
    /\ hashseed = 0
    /\ fp_tie = "even"
    /\ pc = "idle"
    /\ result = NoResult
    /\ earlier = NoResult
    /\ request \in Requests
    /\ ollama \in [tags : TagsOutcomes, generate : GenerateOutcomes]
    /\ ai_pc = "start"
    /\ response = NoRequest
    /\ CronConstructed
    /\ MailIdle

\* one call of AIEngine.optimize_resume
OptimizeResume ==
    /\ ai_pc = "start"
    /\ request.entry = "optimize_resume"
    /\ response' = optimize_resume(request.cv_text, request.job_description,
                                   request.tone, ollama)
    /\ ai_pc' = "done"
    /\ UNCHANGED <<request, ollama>>
    /\ UNCHANGED <<ats_vars, cron_vars, mail_vars>>

\* one POST /resume
TransformResume ==
    /\ ai_pc = "start"
    /\ request.entry = "transform_resume"
    /\ response' = transform_resume(request.cv_text, request.job_description,
                                    request.tone, ollama)
    /\ ai_pc' = "done"
    /\ UNCHANGED <<request, ollama>>
    /\ UNCHANGED <<ats_vars, cron_vars, mail_vars>>

NextAI == OptimizeResume \/ TransformResume

SpecAI == InitAI /\ [][NextAI]_vars

(***************************************************************************)
(* POST /calculate of backend/routes/ats_score.py.  The route has its own  *)
(* keyword extraction and its own score; it does not call ATSMatcher.      *)
(***************************************************************************)
score_technical_skills ==
    << "javascript", "python", "java", "react", "node.js", "sql", "aws", "docker",
       "kubernetes", "git", "agile", "scrum", "machine learning", "data analysis",
       "html", "css", "typescript", "angular", "vue", "mongodb", "postgresql",
       "redis", "elasticsearch", "kafka", "microservices", "api", "rest", "graphql" >>

score_soft_skills ==
    << "leadership", "communication", "teamwork", "problem solving", "project management",
       "collaboration", "time management", "adaptability", "creativity", "analytical",
       "critical thinking", "attention to detail", "multitasking", "mentoring" >>

score_experience_keywords ==
    << "senior", "junior", "mid-level", "entry-level", "lead", "principal", "architect",
       "manager", "director", "years experience", "experience with" >>

score_education_keywords ==
    << "bachelor", "master", "phd", "degree", "university", "college", "certification",
       "certified", "diploma", "coursework" >>

score_industry_keywords ==
    << "fintech", "healthcare", "e-commerce", "saas", "startup", "enterprise",
       "cloud", "devops", "frontend", "backend", "full-stack", "mobile" >>

\* extract_job_keywords of the route.  The loop over capitalized_words skips
\* what found_keywords already holds; set() makes that the same as appending
\* all of them.
score_extract_job_keywords(job, seed) ==
    LET job_lower      == Lower(job)
        all_keywords   == score_technical_skills \o score_soft_skills
                          \o score_experience_keywords \o score_education_keywords
                          \o score_industry_keywords
        found_keywords == Hits(all_keywords, job_lower)
    IN  ListOfSet(found_keywords \o LowerLong(FindTitleRuns(job)), seed)

\* the alternatives of the three technical_patterns, each  \b(a|b|...)\b
technical_patterns ==
    << << "javascript", "python", "java", "react", "node.js", "sql", "aws", "docker",
          "kubernetes", "git" >>,
       << "html", "css", "typescript", "angular", "vue", "mongodb", "postgresql",
          "redis" >>,
       << "agile", "scrum", "machine learning", "data analysis", "api", "rest",
          "graphql" >> >>

\* p occurs in t between two \b: no word character before it and none after
WordBounded(p, t) ==
    \E i \in 1..(Len(t) - Len(p) + 1) :
        /\ LitAt(t, i, p)
        /\ i = 1 \/ Char(t, i - 1) \notin WordSet
        /\ i + Len(p) > Len(t) \/ Char(t, i + Len(p)) \notin WordSet

\* re.findall(pattern, t) as far as set() keeps it: the alternatives that
\* match somewhere.  No alternative is a word-bounded prefix of another and
\* none starts inside a match of another, so no match hides another.
PatternHits(alternatives, t) ==
    SelectSeq(alternatives, LAMBDA p : WordBounded(p, t))

\* str.split('\n')
SplitLines(t) ==
    LET breaks == <<0>> \o SelectSeq(Indices(Len(t)), LAMBDA i : Char(t, i) = "\n")
                  \o <<Len(t) + 1>>
    IN  [k \in 1..(Len(breaks) - 1) |-> SubSeq(t, breaks[k] + 1, breaks[k + 1] - 1)]

\* str.strip()
Strip(t) ==
    IF IsBlank(t) THEN ""
    ELSE LET first == CHOOSE i \in 1..Len(t) :
                          /\ Char(t, i) \notin SpaceSet
                          /\ \A m \in 1..(i - 1) : Char(t, m) \in SpaceSet
             last  == CHOOSE i \in 1..Len(t) :
                          /\ Char(t, i) \notin SpaceSet
                          /\ \A m \in (i + 1)..Len(t) : Char(t, m) \in SpaceSet
         IN  SubSeq(t, first, last)

\* re.findall(r'\b\w+\b', t): the maximal runs of word characters
FindWords(t) ==
    LET starts == SelectSeq(Indices(Len(t)),
                            LAMBDA i : /\ Char(t, i) \in WordSet
                                       /\ i = 1 \/ Char(t, i - 1) \notin WordSet)
    IN  [n \in 1..Len(starts) |->
            SubSeq(t, starts[n], SkipClass(t, starts[n], WordSet) - 1)]

section_headers == <<"skills", "technical skills", "competencies", "abilities">>

section_enders == <<"experience", "education", "work", "employment">>

\* the loop of extract_skills_section from line k on
RECURSIVE SkillsLines(_, _, _, _)
SkillsLines(lines, k, in_skills, skills_section) ==
    IF k > Len(lines) THEN skills_section
    ELSE LET line       == lines[k]
             line_lower == Lower(line)
         IN  IF Hits(section_headers, line_lower) # <<>>
             THEN SkillsLines(lines, k + 1, TRUE, skills_section)
             ELSE IF in_skills /\ ~IsBlank(line)
             THEN IF Hits(section_enders, line_lower) # <<>>
                  THEN skills_section
                  ELSE SkillsLines(lines, k + 1, in_skills,
                                   skills_section \o line \o " ")
             ELSE SkillsLines(lines, k + 1, in_skills, skills_section)

extract_skills_section(cv_text) ==
    Strip(SkillsLines(SplitLines(cv_text), 1, FALSE, ""))

common_words ==
    {"the", "and", "or", "but", "in", "on", "at", "to", "for", "of", "with", "by"}

extract_cv_keywords(cv_text, seed) ==
    LET cv_lower       == Lower(cv_text)
        matches        == PatternHits(technical_patterns[1], cv_lower)
                          \o PatternHits(technical_patterns[2], cv_lower)
                          \o PatternHits(technical_patterns[3], cv_lower)
        skills_section == extract_skills_section(cv_text)
        found_keywords == matches
                          \o (IF skills_section # ""
                              THEN FindWords(Lower(skills_section)) ELSE <<>>)
    IN  ListOfSet(SelectSeq(found_keywords,
                            LAMBDA kw : kw \notin common_words /\ Len(kw) > 2),
                  seed)

\* int((matched / total) * 100) on floats.  The product falls just below a
\* whole number that the exact quotient reaches for the four listed pairs,
\* and for no other pair with a total up to 120.
IntPercentage(matched, total) ==
    IF <<matched, total>> \in {<<29, 50>>, <<29, 100>>, <<57, 100>>, <<58, 100>>}
    THEN (100 * matched) \div total - 1
    ELSE (100 * matched) \div total

calculate_compatibility_score(job_keywords, cv_keywords) ==
    IF job_keywords = <<>>
    THEN [score |-> 0, missing_keywords |-> <<>>, matched_keywords |-> <<>>,
          analysis |-> [error |-> "No keywords found in job description"]]
    ELSE LET matched_keywords == SelectIn(job_keywords, Range(cv_keywords))
             score            == Min(100, IntPercentage(Len(matched_keywords),
                                                        Len(job_keywords)))
             missing_keywords == SelectNotIn(job_keywords, Range(cv_keywords))
         IN  [score |-> score,
              missing_keywords |-> SubSeq(missing_keywords, 1,
                                          Min(10, Len(missing_keywords))),
              matched_keywords |-> matched_keywords,
              analysis |->
                  [total_job_keywords     |-> Len(job_keywords),
                   matched_keywords_count |-> Len(matched_keywords),
                   missing_keywords_count |-> Len(missing_keywords),
                   match_percentage       |-> Percentage(Len(matched_keywords),
                                                         Len(job_keywords)),
                   score_category         |-> get_score_category(score)]]

suggestion_verbs ==
    <<"led", "developed", "implemented", "increased", "improved", "managed", "created">>

generate_improvement_suggestions(score_data, job_keywords, cv_keywords) ==
    LET score             == score_data.score
        missing_keywords  == score_data.missing_keywords
        cv_text_lower     == Lower(Join(cv_keywords, " "))
        action_verb_count == Len(Hits(suggestion_verbs, cv_text_lower))
    IN  (IF score < 60
         THEN <<"Add more relevant keywords from the job description to your resume">>
         ELSE <<>>)
        \o (IF Len(missing_keywords) > 0
            THEN <<SuggestMissing(SubSeq(missing_keywords, 1,
                                         Min(5, Len(missing_keywords))))>>
            ELSE <<>>)
        \o (IF ~HasDigit(Join(cv_keywords, " ")) THEN <<SuggestNumbers>> ELSE <<>>)
        \o (IF action_verb_count < 3 THEN <<SuggestVerbs>> ELSE <<>>)
        \o (IF Hits(summary_markers, cv_text_lower) = <<>>
            THEN <<SuggestSummary>> ELSE <<>>)
        \o (IF Hits(<<"skills", "technical", "competencies">>, cv_text_lower) = <<>>
            THEN <<"Create a dedicated skills section highlighting relevant abilities">>
            ELSE <<>>)

\* The handler of POST /calculate.  The two checks of the texts raise
\* HTTPException(400) inside the try block, whose except Exception clause
\* answers 500 with str() of what it caught.
post_calculate(cv_text, job, seed) ==
    IF IsBlank(cv_text)
    THEN HTTPException(500, "Error calculating ATS score: 400: CV text is required")
    ELSE IF IsBlank(job)
    THEN HTTPException(500, "Error calculating ATS score: 400: Job description is required")
    ELSE LET job_keywords == score_extract_job_keywords(job, seed)
             cv_keywords  == extract_cv_keywords(cv_text, seed)
             score_data   == calculate_compatibility_score(job_keywords, cv_keywords)
         IN  [status_code |-> 200,
              body |-> [score            |-> score_data.score,
                        missing_keywords |-> score_data.missing_keywords,
                        matched_keywords |-> score_data.matched_keywords,
                        suggestions      |->
                            generate_improvement_suggestions(score_data, job_keywords,
                                                             cv_keywords),
                        analysis         |-> score_data.analysis]]

(***************************************************************************)
(* The requests to the two routes.                                         *)
(***************************************************************************)
MaxRouteKeywords == 13

\* the first n technical skills the route knows
RouteKeywordsText(n) == Join(SubSeq(score_technical_skills, 1, n), ", ")

SectionedCv ==
    "Jane Doe\nTechnical Skills\npython, sql and docker\nled 3 teams\n\nExperience\njava at Acme"

CalculateRequests ==
    [entry           : {"calculate"},
     cv_text         : {"", " \n ", "Profile: sql, git, css; led 2 teams",
                        ScenarioAResume, SectionedCv}
                       \cup {RouteKeywordsText(n) : n \in 1..MaxRouteKeywords},
     job_description : {"", " ", "asdf qwe zxcv", ScenarioAJob, ScenarioBJob}
                       \cup {RouteKeywordsText(n) : n \in 1..MaxRouteKeywords}]

TransformRequests ==
    [entry           : {"transform_resume"},
     cv_text         : {"", " \n ", ScenarioAResume},
     job_description : {"", " ", ScenarioAJob},
     tone            : {"professional"}]

\* A request to /calculate comes with a call of the matcher on the same two
\* texts, in the same process, so that the two answers can be compared.
InitRoute ==
    /\ hashseed \in 0..MaxHashSeed
    /\ fp_tie \in {"even", "odd"}
    /\ result = NoResult
    /\ earlier = NoResult
    /\ \/ /\ request \in CalculateRequests
          /\ ollama = NoRequest
          /\ resume_text = Str(request.cv_text)
          /\ job_description = Str(request.job_description)
          /\ pc = "start"
       \/ /\ request \in TransformRequests
          /\ ollama \in [tags : {HttpError("ConnectionError")},
                         generate : {HttpResponse(200, [response |-> GeneratedResume]),
                                     HttpError("ConnectionError")}]
          /\ resume_text = Str("")
          /\ job_description = Str("")
          /\ pc = "idle"
    /\ ai_pc = "start"
    /\ response = NoRequest
    /\ CronConstructed
    /\ MailIdle

\* one POST /calculate
CalculateRoute ==
    /\ ai_pc = "start"
    /\ request.entry = "calculate"
    /\ response' = post_calculate(request.cv_text, request.job_description, hashseed)
    /\ ai_pc' = "done"
    /\ UNCHANGED <<request, ollama>>
    /\ UNCHANGED <<ats_vars, cron_vars, mail_vars>>

NextRoute == CalculateRoute \/ TransformResume \/ Calculate

SpecRoute == InitRoute /\ [][NextRoute]_vars

(***************************************************************************)
(* CronCleaner of backend/utils/cron_cleaner.py: start_cleanup_scheduler   *)
(* and stop_cleanup_scheduler, called one after the other by the           *)
(* application, and the threads that run _run_scheduler.  A thread is at   *)
(* "test" before it reads self.running in the while condition, at          *)
(* "run_pending" and then at "sleep" inside the loop body, and "exited"    *)
(* after it has read False.                                                *)
(***************************************************************************)
MaxThreads == 3

\* no scoring call and no HTTP request
NoCall ==
    /\ resume_text = Str("")
    /\ job_description = Str("")
    /\ hashseed = 0
    /\ fp_tie = "even"
    /\ pc = "idle"
    /\ result = NoResult
    /\ earlier = NoResult

InitCron ==
    /\ NoCall
    /\ request = NoRequest
    /\ ollama = NoRequest
    /\ ai_pc = "idle"
    /\ response = NoRequest
    /\ CronConstructed
    /\ MailIdle

\* the three schedule.every(...).do(...) calls add three jobs
start_cleanup_scheduler ==
    IF running
    THEN /\ cron_log' = "Cleanup scheduler is already running"
         /\ UNCHANGED <<running, cleanup_thread, threads, jobs>>
    ELSE /\ Len(threads) < MaxThreads
         /\ running' = TRUE
         /\ jobs' = jobs + 3
         /\ threads' = Append(threads, "test")
         /\ cleanup_thread' = Len(threads) + 1
         /\ cron_log' = "Cleanup scheduler started (interval: 10 minutes)"

StartCleanupScheduler ==
    /\ start_cleanup_scheduler
    /\ UNCHANGED <<ats_vars, ai_vars, mail_vars>>

\* the thread is neither joined nor told apart from a later one
StopCleanupScheduler ==
    /\ running' = FALSE
    /\ jobs' = 0
    /\ cron_log' = "Cleanup scheduler stopped"
    /\ UNCHANGED <<cleanup_thread, threads>>
    /\ UNCHANGED <<ats_vars, ai_vars, mail_vars>>

\* while self.running:
RunSchedulerTest(i) ==
    /\ threads[i] = "test"
    /\ threads' = [threads EXCEPT ![i] = IF running THEN "run_pending" ELSE "exited"]
    /\ UNCHANGED <<running, cleanup_thread, jobs, cron_log>>
    /\ UNCHANGED <<ats_vars, ai_vars, mail_vars>>

\* schedule.run_pending(): the jobs that are due run; cleanup_temp_files
\* removes the files of tmp that are older than the retention time
RunSchedulerPending(i) ==
    /\ threads[i] = "run_pending"
    /\ threads' = [threads EXCEPT ![i] = "sleep"]
    /\ IF jobs > 0
       THEN \E old \in SUBSET tmp_files : tmp_files' = tmp_files \ old
       ELSE tmp_files' = tmp_files
    /\ UNCHANGED <<running, cleanup_thread, jobs, cron_log, services, outbox>>
    /\ UNCHANGED <<ats_vars, ai_vars>>

\* time.sleep(60) returns
RunSchedulerSleep(i) ==
    /\ threads[i] = "sleep"
    /\ threads' = [threads EXCEPT ![i] = "test"]
    /\ UNCHANGED <<running, cleanup_thread, jobs, cron_log>>
    /\ UNCHANGED <<ats_vars, ai_vars, mail_vars>>

RunScheduler ==
    \E i \in 1..Len(threads) :
        RunSchedulerTest(i) \/ RunSchedulerPending(i) \/ RunSchedulerSleep(i)

NextCron == StartCleanupScheduler \/ StopCleanupScheduler \/ RunScheduler

SpecCron == InitCron /\ [][NextCron]_vars

(***************************************************************************)
(* POST /send-resume of backend/routes/email.py, with generate_pdf_resume  *)
(* of backend/routes/export.py.  services says how pdflatex and the SMTP   *)
(* server behave for the request and which name uuid4 gives the file.      *)
(***************************************************************************)
\* a dict with the given (key, value) pairs
Dict(items) == [type |-> "dict", items |-> items]

\* not resume_data
IsFalsy(value) == value = PyNone \/ value = Dict({})

\* os.path.join("tmp", f"resume_{uuid.uuid4().hex[:8]}.pdf"), and the files
\* next to it; names are relative to tmp
PdfFile(uuid) == "resume_" \o uuid \o ".pdf"

TexFile(uuid) == "resume_" \o uuid \o ".tex"

AuxFiles(uuid) == {"resume_" \o uuid \o ".aux", "resume_" \o uuid \o ".log"}

\* generate_pdf_resume: the template is rendered to the .tex file and
\* pdflatex compiles it in tmp.  Only after a compilation that returned 0
\* and left a PDF are the auxiliary files removed; the .tex file stays.  A
\* compilation that ends with an error may have written a PDF all the same.
generate_pdf_resume(uuid, pdflatex) ==
    IF pdflatex = "ok"
    THEN [ok |-> TRUE, files |-> {TexFile(uuid), PdfFile(uuid)}, message |-> ""]
    ELSE IF pdflatex = "no_output"
    THEN [ok |-> FALSE, files |-> {TexFile(uuid)} \cup AuxFiles(uuid),
          message |-> "Error generating PDF: PDF file not generated"]
    ELSE IF pdflatex = "error"
    THEN [ok |-> FALSE, files |-> {TexFile(uuid)} \cup AuxFiles(uuid),
          message |-> "Error generating PDF: LaTeX compilation failed: "]
    ELSE IF pdflatex = "error_with_pdf"
    THEN [ok |-> FALSE, files |-> {TexFile(uuid), PdfFile(uuid)} \cup AuxFiles(uuid),
          message |-> "Error generating PDF: LaTeX compilation failed: "]
    ELSE IF pdflatex = "timeout"
    THEN [ok |-> FALSE, files |-> {TexFile(uuid)} \cup AuxFiles(uuid),
          message |-> "Error generating PDF: LaTeX compilation timed out"]
    ELSE [ok |-> FALSE, files |-> {TexFile(uuid)},
          message |-> "Error generating PDF: pdflatex not found. Please install LaTeX distribution."]

\* get_smtp_config() is not None: SMTP_USER and SMTP_PASS are set
get_smtp_config(env) == env.smtp_configured

\* send_email.  Every path ends in the except clause: the two checks raise
\* HTTPException inside the try block, a failure of the server raises, and
\* after send_message the response is built with time.time() while the
\* module does not import time, which raises NameError.  delivered says
\* whether the server had accepted the message before.
send_email(to_email, env) ==
    IF to_email = "" \/ ~IsIn("@", to_email)
    THEN [delivered |-> FALSE,
          detail |-> "Error sending email: 400: Valid email address is required"]
    ELSE IF ~get_smtp_config(env)
    THEN [delivered |-> FALSE,
          detail |-> "Error sending email: 500: Email configuration not found"]
    ELSE IF env.smtp # "accepts"
    THEN [delivered |-> FALSE, detail |-> "Error sending email: " \o env.smtp]
    ELSE [delivered |-> TRUE,
          detail |-> "Error sending email: name 'time' is not defined"]

\* the handler of POST /send-resume: what it answers, the files it leaves
\* in tmp and whether a message went out
send_resume_email(mail, env, files) ==
    IF IsFalsy(mail.resume_data)
    THEN [response |-> HTTPException(500,
                          "Error sending resume email: 400: Resume data is required"),
          files |-> files, delivered |-> FALSE]
    ELSE LET pdf == generate_pdf_resume(env.uuid, env.pdflatex)
         IN  IF ~pdf.ok
             THEN [response |-> HTTPException(500,
                                   "Error sending resume email: " \o pdf.message),
                   files |-> files \cup pdf.files, delivered |-> FALSE]
             ELSE LET sent == send_email(mail.to_email, env)
                  IN  [response |-> HTTPException(500,
                                        "Error sending resume email: 500: "
                                        \o sent.detail),
                       files |-> files \cup pdf.files,
                       delivered |-> sent.delivered]

MailRequests ==
    [entry       : {"send_resume"},
     to_email    : {"", "jane.example.org", "jane@example.org"},
     resume_data : {PyNone, Dict({}),
                    Dict({<<"name", "Jane Doe">>, <<"title", "Engineer">>})}]

MailServices ==
    [smtp_configured : BOOLEAN,
     smtp     : {"accepts", "(535, b'Authentication failed')",
                 "[Errno 111] Connection refused"},
     pdflatex : {"ok", "no_output", "error", "error_with_pdf", "timeout", "missing"},
     uuid     : {"1a2b3c4d", "5e6f7a8b"}]

InitMail ==
    /\ NoCall
    /\ request \in MailRequests
    /\ ollama = NoRequest
    /\ ai_pc = "start"
    /\ response = NoRequest
    /\ CronConstructed
    /\ tmp_files \in {{}, {"upload_1.docx"}}
    /\ services \in MailServices
    /\ outbox = <<>>

\* one POST /send-resume
SendResumeEmail ==
    /\ ai_pc = "start"
    /\ request.entry = "send_resume"
    /\ \E outcome \in {send_resume_email(request, services, tmp_files)} :
          /\ response' = outcome.response
          /\ tmp_files' = outcome.files
          /\ outbox' = IF outcome.delivered
                       THEN Append(outbox, [to |-> request.to_email,
                                            attachment |-> PdfFile(services.uuid)])
                       ELSE outbox
    /\ ai_pc' = "done"
    /\ UNCHANGED <<request, ollama, services>>
    /\ UNCHANGED <<ats_vars, cron_vars>>

NextMail == SendResumeEmail

SpecMail == InitMail /\ [][NextMail]_vars

(***************************************************************************)
(* Properties.                                                             *)
(***************************************************************************)
\* the call has returned
Returned == pc = "done"

\* the call has returned the full result (both arguments were str)
Scored == pc = "done" /\ "error" \notin DOMAIN result

\* the vocabulary phrases that occur in a text, as a set
Present(vocabulary, text) ==
    {p \in Range(vocabulary) : IsIn(p, Lower(text))}

\* C1: for every pair of texts, empty ones included, the overall score that
\* calculate_ats_score returns is an integer from 0 to 100.
C1_OverallInRange ==
    Returned => result.overall_score \in 0..100

C1_Witness ==
    /\ Returned
    /\ resume_text = Str("")
    /\ job_description = Str("")
    /\ result.overall_score = 12

\* n/d rounded to a nearest integer, either way at a tie
NearestIntegers(n, d) == {q \in 0..((n \div d) + 1) : 2 * (q * d - n) \in (0 - d)..d}

\* C2: the overall score is the rounded, clamped sum of the six category
\* values weighted 0.30, 0.25, 0.15, 0.15, 0.10, 0.05, where the keyword,
\* technical and soft-skill values are the percentage fields, not the
\* matched counts.
C2_PercentageWeighted ==
    Scored =>
        LET sum == 30 * result.keyword_score.percentage
                   + 25 * result.technical_score.percentage
                   + 15 * result.soft_skills_score.percentage
                   + 100 * (15 * result.experience_score.score
                            + 10 * result.education_score.score
                            + 5 * result.action_verbs_score.score)
        IN  \E q \in NearestIntegers(sum, 10000) :
                result.overall_score = Min(100, Max(0, q))

\* C3: matched_keywords and missing_keywords partition the job keyword set:
\* together they are the whole set and they have no keyword in common.
C3_KeywordPartition ==
    Scored =>
        LET J       == Range(extract_job_keywords(job_description, hashseed))
            matched == Range(result.matched_keywords)
            missing == Range(result.missing_keywords)
        IN  /\ matched \cup missing = J
            /\ matched \cap missing = {}
            /\ matched \subseteq J

C3_Witness ==
    /\ Scored
    /\ result.matched_keywords # <<>>
    /\ result.missing_keywords # <<>>

\* C4: the score field of each of the six category results is between 0 and
\* 100.
C4_CategoryScoresInRange ==
    Scored =>
        /\ result.keyword_score.score \in 0..100
        /\ result.technical_score.score \in 0..100
        /\ result.soft_skills_score.score \in 0..100
        /\ result.experience_score.score \in 0..100
        /\ result.education_score.score \in 0..100
        /\ result.action_verbs_score.score \in 0..100

\* what the keyword scorer returns apart from the percentage, and the
\* empty-job policy of the three list scorers
C5_Counts ==
    LET J  == Range(extract_job_keywords(job_description, hashseed))
        R  == Range(extract_resume_keywords(resume_text, hashseed))
        kw == result.keyword_score
        zero(c) == c.score = 0 /\ c.total = 0 /\ c.percentage = 0
    IN  /\ J = {} => zero(kw)
        /\ J # {} => /\ Range(kw.matched) = J \cap R
                     /\ Len(kw.matched) = Cardinality(J \cap R)
                     /\ kw.total = Cardinality(J)
        /\ Present(technical_skills, job_description.value) = {}
              => zero(result.technical_score)
        /\ Present(soft_skills, job_description.value) = {}
              => zero(result.soft_skills_score)

\* C5 as stated: matched = job /\ resume, total = |job| and percentage is
\* exactly 100 * |matched| / |job|; an empty job side gives score, total and
\* percentage 0, for the technical and soft-skill scorers too.
C5_ExactPercentage ==
    Scored =>
        /\ C5_Counts
        /\ result.keyword_score.total > 0 =>
              result.keyword_score.percentage * result.keyword_score.total
                  = 10000 * Len(result.keyword_score.matched)

\* C5 amended: as C5, with the percentage being 100 * |matched| / |job|
\* rounded to two decimals (it is within 0.005 of the quotient).
C5_RoundedPercentage ==
    Scored =>
        /\ C5_Counts
        /\ result.keyword_score.total > 0 =>
              LET err == result.keyword_score.percentage * result.keyword_score.total
                         - 10000 * Len(result.keyword_score.matched)
              IN  /\ 2 * err <= result.keyword_score.total
                  /\ 0 - 2 * err <= result.keyword_score.total

C5_Witness ==
    /\ Scored
    /\ result.keyword_score.total = 3
    /\ Len(result.keyword_score.matched) = 1
    /\ result.keyword_score.percentage = 3333

\* the largest number of 0..MaxYears that a text states as years
\* (number, optional +, optional space, "year"); 0 when it states none
YearsStated(text) ==
    LET low   == Lower(text)
        found == {n \in 0..MaxYears :
                    \E plus \in {"", "+"}, space \in {"", " "} :
                        IsIn(ToStr(n) \o plus \o space \o "year", low)}
                 \cup {0}
    IN  CHOOSE y \in found : \A z \in found : z <= y

\* C6: with job_years and resume_years the largest year figures of the two
\* texts (0 when there is none), the experience scorer returns 50 and
\* match = True when job_years = 0, and otherwise 100, 80, 60 or 30 as
\* resume_years reaches job_years, 0.8 * job_years, 0.6 * job_years or
\* neither, each threshold included.
C6_ExperienceThresholds ==
    Scored =>
        LET e  == result.experience_score
            jy == YearsStated(job_description.value)
            ry == YearsStated(resume_text.value)
        IN  /\ e.job_years = jy
            /\ e.resume_years = ry
            /\ jy = 0 => e.score = 50 /\ e.match = TRUE
            /\ jy > 0 /\ ry >= jy => e.score = 100
            /\ jy > 0 /\ ry < jy /\ 10 * ry >= 8 * jy => e.score = 80
            /\ jy > 0 /\ 10 * ry < 8 * jy /\ 10 * ry >= 6 * jy => e.score = 60
            /\ jy > 0 /\ 10 * ry < 6 * jy => e.score = 30

C6_Witness ==
    /\ Scored
    /\ result.experience_score.job_years = 5
    /\ result.experience_score.resume_years = 4
    /\ result.experience_score.score = 80

\* the qualifications whose markers occur in a text
Qualifications(text) ==
    LET has(marker) == IsIn(marker, Lower(text))
    IN  {q \in {"Bachelor's Degree", "Master's Degree", "PhD", "Certification"} :
            \/ q = "Bachelor's Degree" /\ has("bachelor")
            \/ q = "Master's Degree" /\ has("master")
            \/ q = "PhD" /\ (has("phd") \/ has("doctorate"))
            \/ q = "Certification" /\ (has("certification") \/ has("certified"))}

\* C7: the education scorer lists for each text the qualifications whose
\* markers occur in it, each checked on its own; with no job qualification it
\* returns 50 and match = True, otherwise 100 and True when the resume has at
\* least one of the job's qualifications and 30 and False when it has none.
C7_EducationMatch ==
    Scored =>
        LET d  == result.education_score
            jq == Qualifications(job_description.value)
            rq == Qualifications(resume_text.value)
        IN  /\ Range(d.job_education) = jq
            /\ Range(d.resume_education) = rq
            /\ jq = {} => d.score = 50 /\ d.match = TRUE
            /\ jq # {} /\ jq \cap rq # {} => d.score = 100 /\ d.match = TRUE
            /\ jq # {} /\ jq \cap rq = {} => d.score = 30 /\ d.match = FALSE

C7_Witness ==
    /\ Scored
    /\ Len(result.education_score.job_education) = 2
    /\ result.education_score.resume_education = <<"Certification">>
    /\ result.education_score.score = 100

\* C8: the action-verb scorer counts the distinct action verbs present in
\* the resume, whatever the job text, and scores min(100, count * 10).
C8_ActionVerbScore ==
    Scored =>
        LET count == Cardinality(Present(action_verbs, resume_text.value))
        IN  /\ result.action_verbs_score.count = count
            /\ result.action_verbs_score.score = Min(100, count * 10)
            /\ count = 3 => result.action_verbs_score.score = 30
            /\ count >= 10 => result.action_verbs_score.score = 100

C8_Witness ==
    /\ Scored
    /\ result.action_verbs_score.count > 10
    /\ result.action_verbs_score.score = 100

\* the five rules in their order: the suggestion of each and whether its
\* condition holds for the returned result
SuggestionRules ==
    << [text  |-> SuggestKeywords,
        fires |-> result.overall_score < 60],
       [text  |-> SuggestMissing(SubSeq(result.missing_keywords, 1,
                                        Min(5, Len(result.missing_keywords)))),
        fires |-> result.missing_keywords # <<>>],
       [text  |-> SuggestNumbers,
        fires |-> \A i \in 1..Len(resume_text.value) :
                      Char(resume_text.value, i) \notin DigitSet],
       [text  |-> SuggestVerbs,
        fires |-> Cardinality(Present(action_verbs, resume_text.value)) < 3],
       [text  |-> SuggestSummary,
        fires |-> Present(summary_markers, resume_text.value) = {}] >>

\* C9: the suggestions are exactly those of the rules whose own condition
\* holds, each once and in the order of the rules.
C9_SuggestionRules ==
    Scored =>
        LET fired == SelectSeq(SuggestionRules, LAMBDA rule : rule.fires)
        IN  result.suggestions = [n \in 1..Len(fired) |-> fired[n].text]

C9_Witness ==
    /\ Scored
    /\ result.overall_score >= 60
    /\ ~HasDigit(resume_text.value)
    /\ result.suggestions = <<SuggestNumbers>>

\* C10: when none of the five rules fires the suggestions are the one
\* fallback sentence, so the list of suggestions is never empty.
C10_FallbackSuggestion ==
    Scored =>
        /\ result.suggestions # <<>>
        /\ (\A k \in 1..5 : ~SuggestionRules[k].fires)
              => result.suggestions = <<"General ATS optimization applied.">>

\* C11: the overall label is decided by the overall score alone: 80 and more
\* is "Excellent", 60 to 79 "Good, minor improvements needed", 40 to 59
\* "Fair, significant improvements needed", less than 40 "Poor, major
\* optimization required"; 80, 60 and 40 take the upper label.  The scoring
\* route's get_score_category gives the same label.
C11_OverallLabel ==
    Scored =>
        LET score == result.overall_score
            label == result.analysis.overall
        IN  /\ score >= 80 <=> label = "Excellent ATS compatibility"
            /\ score \in 60..79 <=>
                  label = "Good compatibility, minor improvements needed"
            /\ score \in 40..59 <=>
                  label = "Fair compatibility, significant improvements needed"
            /\ score < 40 <=>
                  label = "Poor compatibility, major optimization required"
            /\ get_score_category(score) = label

C11_Witness ==
    /\ Scored
    /\ result.overall_score = 80
    /\ result.analysis.overall = "Excellent ATS compatibility"

\* C12: the keyword label and the technical label are each decided by the
\* percentage of their own category: "Strong" from 70, "Moderate" from 50 to
\* below 70, "Weak" below 50, which includes the percentage 0 of an empty job
\* side.
C12_SubAnalysisLabels ==
    Scored =>
        LET level(percentage) == IF percentage >= 7000 THEN "Strong"
                                 ELSE IF percentage >= 5000 THEN "Moderate"
                                 ELSE "Weak"
        IN  /\ result.analysis.keywords =
                  level(result.keyword_score.percentage) \o " keyword match"
            /\ result.analysis.technical =
                  level(result.technical_score.percentage) \o " technical skills match"
            /\ result.keyword_score.total = 0 =>
                  result.analysis.keywords = "Weak keyword match"
            /\ result.technical_score.total = 0 =>
                  result.analysis.technical = "Weak technical skills match"

C12_Witness ==
    /\ Scored
    /\ result.keyword_score.percentage = 5000
    /\ result.analysis.keywords = "Moderate keyword match"
    /\ result.technical_score.percentage = 10000
    /\ result.analysis.technical = "Strong technical skills match"

\* the keywords extracted from the two texts of the call, each in its role
JobKeywords == extract_job_keywords(job_description, hashseed)

ResumeKeywords == extract_resume_keywords(resume_text, hashseed)

\* C13: extraction is total.  For every text and in both roles it returns a
\* collection that holds no keyword twice, and for the empty text the empty
\* collection; it fails for no text.
C13_ExtractionTotal ==
    Returned =>
        LET job    == JobKeywords
            resume == ResumeKeywords
        IN  /\ Cardinality(Range(job)) = Len(job)
            /\ Cardinality(Range(resume)) = Len(resume)
            /\ job_description = Str("") => job = <<>>
            /\ resume_text = Str("") => resume = <<>>
            /\ Scored =>
                  /\ result.keyword_score.total = Len(job)
                  /\ Range(result.matched_keywords) = Range(job) \cap Range(resume)

C13_Witness ==
    /\ Scored
    /\ resume_text = Str("")
    /\ job_description = Str(ScenarioAJob)
    /\ result.keyword_score.total = 8
    /\ result.matched_keywords = <<>>

\* the phrases of the three vocabularies
Vocabulary ==
    Range(technical_skills) \cup Range(soft_skills) \cup Range(action_verbs)

\* u is one or more capitalised words (a capital and then small letters),
\* separated by white space
IsTitleRun(u) ==
    /\ Len(u) >= 2
    /\ Char(u, 1) \in UpperSet
    /\ Char(u, Len(u)) \in LowerSet
    /\ \A k \in 1..Len(u) :
          /\ Char(u, k) \in UpperSet \cup LowerSet \cup SpaceSet
          /\ Char(u, k) \in UpperSet =>
                /\ k < Len(u) /\ Char(u, k + 1) \in LowerSet
                /\ k = 1 \/ Char(u, k - 1) \in SpaceSet
          /\ Char(u, k) \in LowerSet =>
                k > 1 /\ Char(u, k - 1) \in UpperSet \cup LowerSet

\* kw is the lower-cased form of a run of capitalised words of the text
IsTitleToken(kw, text) ==
    LET low == Lower(text)
    IN  \E i \in 1..(Len(text) - Len(kw) + 1) :
            /\ LitAt(low, i, kw)
            /\ IsTitleRun(SubSeq(text, i, i + Len(kw) - 1))

\* the experience-level signals of the job role
ExperienceSignals == {"years experience", "senior", "junior", "lead"}

\* C14: every keyword that extraction returns for a text is a phrase of the
\* vocabularies or the lower-cased form of a run of capitalised words of that
\* text; extraction produces no other string.
C14_ExtractSubset ==
    Returned =>
        /\ \A kw \in Range(JobKeywords) :
              kw \in Vocabulary \/ IsTitleToken(kw, job_description.value)
        /\ \A kw \in Range(ResumeKeywords) :
              kw \in Vocabulary \/ IsTitleToken(kw, resume_text.value)

\* C14 amended: as C14, a keyword of the job role being also allowed to be
\* one of the experience-level signals 'years experience', 'senior',
\* 'junior', 'lead'.
C14_ExtractSubsetOrSignal ==
    Returned =>
        /\ \A kw \in Range(JobKeywords) :
              \/ kw \in Vocabulary \cup ExperienceSignals
              \/ IsTitleToken(kw, job_description.value)
        /\ \A kw \in Range(ResumeKeywords) :
              kw \in Vocabulary \/ IsTitleToken(kw, resume_text.value)

C14_Witness ==
    /\ Scored
    /\ job_description = Str(ScenarioBJob)
    /\ Range(result.missing_keywords) \cup Range(result.matched_keywords)
          = {"r", "need", "years experience", "senior"}

\* C15: two calls with the same resume and the same job description return
\* the same output in every field: the result depends on the two texts and
\* on nothing else.
C15_SameOutput ==
    (Returned /\ earlier # NoResult) => result = earlier

\* the call ended by raising an exception, which would be left in result as
\* [raised |-> its class], and not by returning a dict.  The except clause of
\* calculate_ats_score catches every Exception and returns ErrorResult.
Raised == Returned /\ "raised" \in DOMAIN result

\* C16: calculate_ats_score never raises, and whatever it returns, the
\* degraded result of a failed scoring included, is a complete result with
\* the overall score, the matched and the missing keywords, the suggestions
\* and an analysis; the degraded one has score 0 and no matched keyword.
C16_CompleteResult ==
    Returned =>
        /\ ~Raised
        /\ {"overall_score", "matched_keywords", "missing_keywords",
             "suggestions", "analysis"} \subseteq DOMAIN result
        /\ ~Scored => /\ result.overall_score = 0
                       /\ result.matched_keywords = <<>>

\* C17: a call with an argument that is not a str ends by raising, with an
\* exception of the TypeError kind; it does not return a result with a score.
C17_NonStringRaises ==
    (Returned /\ (resume_text.type # "str" \/ job_description.type # "str")) =>
        /\ Raised
        /\ "overall_score" \notin DOMAIN result

\* C18: Scenario A.  The technical match includes python and aws, the
\* soft-skill match is 0 of 1, experience and education score 100 with match
\* True, and the overall score exceeds 60.
C18_ScenarioA ==
    (Returned /\ resume_text = Str(ScenarioAResume)
              /\ job_description = Str(ScenarioAJob)) =>
        /\ Scored
        /\ {"python", "aws"} \subseteq Range(result.technical_score.matched)
        /\ result.soft_skills_score.score = 0
        /\ result.soft_skills_score.total = 1
        /\ result.experience_score.score = 100
        /\ result.experience_score.match = TRUE
        /\ result.education_score.score = 100
        /\ result.education_score.match = TRUE
        /\ result.action_verbs_score.count = 1
        /\ result.overall_score > 60

\* C19: a blank resume with a job description that is not blank is valid
\* input and gets a full result, not an error, with no matched keyword and
\* keyword, technical and soft-skill scores 0.  Scenario B, whose job asks
\* for 10 years and a PhD: experience score 30, education score 30, overall
\* score below 40 with the "Poor" label.
C19_BlankResume ==
    (Returned /\ resume_text.type = "str" /\ job_description.type = "str"
              /\ IsBlank(resume_text.value) /\ ~IsBlank(job_description.value)) =>
        /\ Scored
        /\ result.matched_keywords = <<>>
        /\ result.keyword_score.score = 0
        /\ result.technical_score.score = 0
        /\ result.soft_skills_score.score = 0
        /\ job_description = Str(ScenarioBJob) =>
              /\ result.experience_score.score = 30
              /\ result.education_score.score = 30
              /\ result.overall_score < 40
              /\ result.analysis.overall
                    = "Poor compatibility, major optimization required"

C19_Witness ==
    /\ Scored
    /\ resume_text = Str("")
    /\ job_description = Str(ScenarioBJob)
    /\ result.experience_score.job_years = 10
    /\ result.education_score.job_education = <<"PhD">>
    /\ result.overall_score = 8

\* the generation call did not give a text: the service was not reached,
\* timed out, answered with another status than 200, or with no text
GenerationFails ==
    \/ ollama.generate.kind # "response"
    \/ ollama.generate.status_code # 200
    \/ ollama.generate.body = InvalidJson
    \/ ResponseField(ollama.generate.body) = ""

\* AIEngine.optimize_resume falls back whenever the service fails
OptimizeResumeFallsBack ==
    (ai_pc = "done" /\ request.entry = "optimize_resume"
        /\ (GenerationFails \/ ~check_ollama_availability(ollama.tags))) =>
        response = fallback_optimization(request.cv_text, request.job_description,
                                         request.tone)

\* C20: whenever the text-generation service cannot be reached or fails in
\* any way, the optimization falls back to the rule-based skeleton and
\* returns a successful result, in AIEngine.optimize_resume and in the
\* /resume route alike (for the route, on a request whose texts are not
\* blank).
C20_FallbackOnFailure ==
    (ai_pc = "done" /\ GenerationFails) =>
        /\ request.entry = "optimize_resume" =>
              /\ response.success = TRUE
              /\ response.method = "rule_based_optimization"
              /\ response.optimized_resume =
                    optimized_sections(extract_keywords_from_job(request.job_description),
                                       EngineBullet)
        /\ (/\ request.entry = "transform_resume"
            /\ ~IsBlank(request.cv_text)
            /\ ~IsBlank(request.job_description)) =>
              /\ response.status_code = 200
              /\ response.body.success = TRUE
              /\ response.body.optimized_resume =
                    route_fallback_optimization(request.cv_text,
                                                request.job_description, request.tone)

\* POST /calculate has answered 200
Answered ==
    ai_pc = "done" /\ request.entry = "calculate" /\ response.status_code = 200

\* C21: for the same resume text and job description POST /calculate returns
\* the score, the matched keywords and the missing keywords that
\* ATSMatcher.calculate_ats_score returns (the keyword lists compared as
\* sets).
C21_RouteAgreesWithMatcher ==
    (Answered /\ Scored) =>
        /\ response.body.score = result.overall_score
        /\ Range(response.body.matched_keywords) = Range(result.matched_keywords)
        /\ Range(response.body.missing_keywords) = Range(result.missing_keywords)

\* C24: POST /calculate and POST /resume answer a request whose cv_text or
\* job_description is blank with status 400 and the detail that names the
\* missing text.
C24_BlankRequest ==
    (/\ ai_pc = "done"
     /\ request.entry \in {"calculate", "transform_resume"}
     /\ IsBlank(request.cv_text) \/ IsBlank(request.job_description)) =>
        response = HTTPException(400, IF IsBlank(request.cv_text)
                                      THEN "CV text is required"
                                      ELSE "Job description is required")

\* C25: in a 200 answer of POST /calculate the matched and the missing
\* keywords are disjoint and together are the job keywords extracted from
\* the request.
C25_RoutePartition ==
    Answered =>
        /\ Range(response.body.matched_keywords)
              \cap Range(response.body.missing_keywords) = {}
        /\ Range(response.body.matched_keywords)
              \cup Range(response.body.missing_keywords)
              = Range(score_extract_job_keywords(request.job_description, hashseed))

\* the keywords that extraction adds in both roles: the technical and soft
\* skills that occur in the text and its lower-cased title-case tokens of
\* more than two characters
SharedKeywords(text) ==
    Present(technical_skills, text) \cup Present(soft_skills, text)
    \cup {Lower(run) : run \in {u \in Range(FindTitleRuns(text)) : Len(u) > 2}}

\* the experience-level signals that a text gives rise to
SignalsOf(text) ==
    (IF HasYearsPattern(Lower(text)) THEN {"years experience"} ELSE {})
    \cup {s \in {"senior", "junior", "lead"} : IsIn(s, Lower(text))}

\* C22: extraction is role-specific.  The job keywords are the shared
\* keywords of the job text and its experience-level signals, action verbs
\* not being added; the resume keywords are the shared keywords of the
\* resume text and the action verbs that occur in it, the signals not being
\* added.
C22_RoleSpecific ==
    Scored =>
        /\ Range(JobKeywords)
              = SharedKeywords(job_description.value) \cup SignalsOf(job_description.value)
        /\ Range(ResumeKeywords)
              = SharedKeywords(resume_text.value)
                \cup Present(action_verbs, resume_text.value)

\* the same text in both roles: it has the action verb led, the word senior
\* and a years pattern
C22_Witness ==
    /\ Scored
    /\ resume_text = Str(ScenarioAResume)
    /\ job_description = Str(ScenarioAResume)
    /\ {"senior", "years experience"} \subseteq Range(result.missing_keywords)
    /\ "led" \notin Range(result.missing_keywords) \cup Range(result.matched_keywords)
    /\ "led" \in Range(ResumeKeywords)
    /\ Range(ResumeKeywords) \cap ExperienceSignals = {}

\* the numbers of a category result that has a list of matches
Figures(category_score) ==
    <<category_score.score, category_score.total, category_score.percentage>>

\* C23: what calculate_ats_score returns does not depend on the iteration
\* order of the two keyword sets.  Two calls with the same texts, whose sets
\* may come in two orders, return the same scores, the same matched and
\* missing keywords as sets, and the same suggestion texts.
C23_OrderIndependent ==
    (Scored /\ earlier # NoResult /\ "error" \notin DOMAIN earlier) =>
        /\ result.overall_score = earlier.overall_score
        /\ Figures(result.keyword_score) = Figures(earlier.keyword_score)
        /\ Figures(result.technical_score) = Figures(earlier.technical_score)
        /\ Range(result.matched_keywords) = Range(earlier.matched_keywords)
        /\ Range(result.missing_keywords) = Range(earlier.missing_keywords)
        /\ result.suggestions = earlier.suggestions

\* POST /calculate returns the same missing keywords, as a set, whatever
\* the iteration order of the keyword sets
RouteMissingOrderFree ==
    Answered =>
        \A seed \in 0..MaxHashSeed :
            Range(post_calculate(request.cv_text, request.job_description,
                                 seed).body.missing_keywords)
            = Range(response.body.missing_keywords)

\* the threads that are inside the loop of _run_scheduler
InLoop == {i \in 1..Len(threads) : threads[i] \in {"run_pending", "sleep"}}

\* C26: whatever start_cleanup_scheduler and stop_cleanup_scheduler calls
\* were made, at most one thread is inside the loop of _run_scheduler.
C26_OneSchedulerThread == Cardinality(InLoop) <= 1

\* a start while the scheduler is running starts no thread
StartWhileRunning ==
    [][(running /\ StartCleanupScheduler) => threads' = threads]_vars

\* the year figures that the years patterns find in a text
YearFigures(text) ==
    LET low == Lower(text)
    IN  {ParseInt(d) : d \in Range(FindYears(low, year_patterns[1])
                                   \o FindYears(low, year_patterns[2])
                                   \o FindYears(low, year_patterns[3]))}

\* resume r2 has every vocabulary hit, title-case token, education marker
\* and year figure that resume r1 has
Extends(r2, r1) ==
    /\ Range(extract_resume_keywords(Str(r1), 0))
          \subseteq Range(extract_resume_keywords(Str(r2), 0))
    /\ Range(extract_education_from_resume(r1))
          \subseteq Range(extract_education_from_resume(r2))
    /\ YearFigures(r1) \subseteq YearFigures(r2)

\* the pairs of versions of the resume of which the second extends the
\* first
ExtendingVersions ==
    {v \in ResumeVersions \X ResumeVersions : Extends(v[2], v[1])}

\* the scores of a result
ScoresOf(r) ==
    <<r.keyword_score.score, r.keyword_score.percentage,
      r.technical_score.score, r.technical_score.percentage,
      r.soft_skills_score.score, r.soft_skills_score.percentage,
      r.experience_score.score, r.education_score.score,
      r.action_verbs_score.score, r.overall_score>>

\* C27: for a fixed job description, a resume that extends another one gets
\* no category score and no overall score below the other's.
C27_MonotoneInResume ==
    (/\ Scored
     /\ earlier # NoResult
     /\ <<earlier.resume_text.value, resume_text.value>> \in ExtendingVersions) =>
        \A k \in 1..Len(ScoresOf(result)) :
            ScoresOf(result)[k] >= ScoresOf(earlier.result)[k]

\* a revised resume that extends the first one and scores higher
C27_Witness ==
    /\ Scored
    /\ earlier # NoResult
    /\ earlier.resume_text = Str(YearsResume(3))
    /\ resume_text = Str(TwoYearsResume(3, 5))
    /\ job_description = Str(YearsJob(5))
    /\ <<earlier.resume_text.value, resume_text.value>> \in ExtendingVersions
    /\ earlier.result.experience_score.score = 60
    /\ result.experience_score.score = 100
    /\ result.overall_score > earlier.result.overall_score

\* C28: in the experience result and in the education result the match flag
\* goes with the score.  match is True exactly when the score is 100, or 50
\* for a job that states no requirement; it is False exactly when the score
\* is 80, 60 or 30.
C28_MatchAgreesWithScore ==
    Scored =>
        LET experience == result.experience_score
            education  == result.education_score
        IN  /\ experience.match \in BOOLEAN
            /\ experience.match <=>
                  \/ experience.score = 100
                  \/ experience.score = 50 /\ experience.job_years = 0
            /\ ~experience.match <=> experience.score \in {80, 60, 30}
            /\ education.match \in BOOLEAN
            /\ education.match <=>
                  \/ education.score = 100
                  \/ education.score = 50 /\ education.job_education = <<>>
            /\ ~education.match <=> education.score \in {80, 60, 30}

\* eight of ten required years: score 80 without a match, and no degree
\* asked for
C28_Witness ==
    /\ Scored
    /\ resume_text = Str(YearsResume(8))
    /\ job_description = Str(YearsJob(10))
    /\ result.experience_score.score = 80
    /\ result.experience_score.match = FALSE
    /\ result.education_score.score = 50
    /\ result.education_score.match = TRUE

\* AIEngine.optimize_resume has returned
Optimized == ai_pc = "done" /\ request.entry = "optimize_resume"

\* the bonus that goes with an improvement the result lists
Bonus(points, improvement) ==
    IF improvement \in Range(response.improvements) THEN points ELSE 0

\* C29: the optimization_score of AIEngine.optimize_resume lies in 50..100.
\* On the AI path it is 50 plus 15, 10, 10 and 5 for the improvements listed
\* in the result (numbers, action verbs, summary heading, skills heading)
\* plus 10 when the text grew by more than a tenth, and at most 100; on every
\* fallback path it is 60 with the method rule_based_optimization.
C29_OptimizationScore ==
    Optimized =>
        /\ response.optimization_score \in 50..100
        /\ response.method \in {"ai_optimization", "rule_based_optimization"}
        /\ response.method = "rule_based_optimization" <=>
              (GenerationFails \/ ~check_ollama_availability(ollama.tags))
        /\ response.method = "rule_based_optimization" =>
              response.optimization_score = 60
        /\ response.method = "ai_optimization" =>
              LET listed == Bonus(15, "Added quantified achievements and metrics")
                            + Bonus(10, "Enhanced with strong action verbs")
                            + Bonus(10, "Added compelling professional summary")
                            + Bonus(5, "Organized skills section for better visibility")
                  grown  == 10 * WordCount(response.optimized_resume)
                               > 11 * WordCount(request.cv_text)
              IN  response.optimization_score
                     = 50 + listed + (IF grown THEN 10 ELSE 0)

\* a generated text with all five improvements over an empty resume
C29_Witness ==
    /\ Optimized
    /\ request.cv_text = ""
    /\ response.method = "ai_optimization"
    /\ response.optimized_resume = GeneratedResume
    /\ Len(response.improvements) = 5
    /\ response.optimization_score = 100

\* C30: after send_resume_email has finished, whatever the outcome, the PDF
\* it generated under tmp does not exist any more.
C30_TemporaryPdfRemoved ==
    (ai_pc = "done" /\ request.entry = "send_resume") =>
        PdfFile(services.uuid) \notin tmp_files

====
